---- MODULE Spec2Model ----
(***************************************************************************)
(* The project-language consistency core of tms-backend                    *)
(* (apps/projects/utils.py, apps/projects/models.py), as a state machine   *)
(* over a transactional store.                                             *)
(*                                                                         *)
(* The store is modelled the way the code uses it: every service function  *)
(* is wrapped in transaction.atomic, so its statements run one by one      *)
(* against the committed rows plus the transaction's own uncommitted       *)
(* writes (READ COMMITTED), UPDATE / DELETE / SELECT ... FOR UPDATE take   *)
(* row locks that are held until commit or rollback, and an exception      *)
(* rolls the transaction back.  Model instances handed to the service      *)
(* functions are in-memory copies of a row: they are read from the store   *)
(* before the call and are not refreshed by the call unless the code does. *)
(***************************************************************************)
EXTENDS Integers, Sequences, FiniteSets, TLC

\* ---------------------------------------------------------------- bounds
\* number of ProjectLanguage rows ever inserted (primary keys are never reused)
MaxId == 3
\* longest languages_data list handed to project_language_bulk_add
MaxItems == 2
\* number of TranslationKey rows ever inserted
MaxKeyId == 2
\* number of TranslationValue rows ever inserted
MaxValId == 3
\* latest reading of the clock
MaxTime == 1

\* ------------------------------------------------------------- universes
ProjectIds == {"p1", "p2"}
\* the part of the catalog the model uses
LanguageChoices == {"en", "fr"}
\* codes a caller may pass: catalog codes and one unknown code
Codes == LanguageChoices \cup {"xx"}
\* concurrent requests
Reqs == {"r1", "r2"}

VARIABLES
    projects,   \* ids of the Project rows in the store
    pdata,      \* committed Project rows: id -> fields
    now,        \* the clock (timezone.now)
    gone,       \* ids of deleted projects (ids are never reused)
    db,         \* committed ProjectLanguage rows: pk -> row
    nextId,     \* next primary key
    pc,         \* per request: position in the service function
    call,       \* per request: arguments and locals of the running call
    tx,         \* per request: uncommitted writes and row locks
    ret,        \* per request: outcome of the finished call
    keys,       \* committed TranslationKey rows: pk -> row
    values,     \* committed TranslationValue rows: pk -> row
    nextKey,    \* next TranslationKey primary key
    nextVal,    \* next TranslationValue primary key
    tpc,        \* per translation request: position in the service function
    tcall,      \* per translation request: arguments and locals of the call
    ttx,        \* per translation request: uncommitted writes
    tret        \* per translation request: outcome of the finished call

\* the state of the translation requests
tvars == <<nextKey, nextVal, tpc, tcall, ttx, tret>>

vars == <<projects, pdata, now, gone, db, nextId, pc, call, tx, ret, keys, values, tvars>>

\* the language calls do not touch the translation tables
TranslationsUnchanged == UNCHANGED <<keys, values, tvars>>

\* ------------------------------------------------------------------ rows
Row(p, c, b) == [project |-> p, language |-> c, is_base_language |-> b]

NoRows == [k \in {} |-> Row("p1", "en", FALSE)]

Overlay(f, g) ==
    [k \in DOMAIN f \cup DOMAIN g |-> IF k \in DOMAIN g THEN g[k] ELSE f[k]]

ProjectRows(V, p) == {k \in DOMAIN V : V[k].project = p}

BaseRows(V, p) == {k \in DOMAIN V : V[k].project = p /\ V[k].is_base_language}

\* --------------------------------------------------------- transactions
NoTx == [rows |-> NoRows, del |-> {}, lk |-> {}]

\* what the statements of a transaction see: committed rows and its own writes
ViewOf(t) ==
    LET all == Overlay(db, t.rows)
    IN  [k \in DOMAIN all \ t.del |-> all[k]]

View(r) == ViewOf(tx[r])

LockedByOther(r, k) == \E o \in Reqs \ {r} : k \in tx[o].lk

\* rows another transaction has written and not yet committed
UncommittedOf(o) == [k \in DOMAIN tx[o].rows \ tx[o].del |-> tx[o].rows[k]]

\* UPDATE / INSERT of the rows w: the rows are written and locked
TxWrite(t, w) ==
    [t EXCEPT !.rows = Overlay(@, w), !.lk = @ \cup DOMAIN w]

\* DELETE of the rows S
TxDelete(t, S) == [t EXCEPT !.del = @ \cup S, !.lk = @ \cup S]

\* a model instance in memory: a copy of the row k
Instance(k, row) ==
    [pk |-> k, project |-> row.project, language |-> row.language,
     is_base_language |-> row.is_base_language]

NoHandle == Instance(0, Row("p1", "en", FALSE))

\* a Project row (projects/models.py 14-26, core/models.py 11-12); slug is
\* a sequence of characters
ProjectRow(s, n, d, c, u) ==
    [slug |-> s, name |-> n, description |-> d, created_at |-> c,
     updated_at |-> u]

NoProjects == [p \in {} |-> ProjectRow(<<>>, "", "", 0, 0)]

\* a Project instance in memory: a copy of the row p
ProjectInstance(p, row) ==
    [pk |-> p, slug |-> row.slug, name |-> row.name,
     description |-> row.description, created_at |-> row.created_at,
     updated_at |-> row.updated_at]

NoCall ==
    [kind |-> "none", project |-> "p1", language |-> "en",
     is_base_language |-> FALSE, requested_base |-> FALSE,
     has_languages |-> FALSE, languages_data |-> <<>>, idx |-> 0, pk |-> 0,
     project_language |-> NoHandle, again |-> FALSE,
     instance |-> ProjectInstance("p1", ProjectRow(<<>>, "", "", 0, 0)),
     update_fields |-> {}]

NoRet == [result |-> "none", rows |-> <<>>]

\* translation requests
TReqs == {"t1", "t2"}

\* a TranslationKey row (translations/models.py 32-46, core/models.py 12)
KeyRow(p, k, d, u) ==
    [project |-> p, key |-> k, description |-> d, updated_at |-> u]

NoKeys == [k \in {} |-> KeyRow("p1", <<>>, "", 0)]

ValueRow(tk, c, v) == [translation_key |-> tk, language |-> c, value |-> v]

NoValues == [k \in {} |-> ValueRow(0, "en", "")]

\* a TranslationKey instance in memory: a copy of the row k
KeyInstance(k, row) ==
    [pk |-> k, project |-> row.project, key |-> row.key,
     description |-> row.description, updated_at |-> row.updated_at]

\* a TranslationValue instance in memory: a copy of the row k
ValueInstance(k, row) ==
    [pk |-> k, translation_key |-> row.translation_key,
     language |-> row.language, value |-> row.value]

NoTCall ==
    [kind |-> "none", project |-> "p1", key |-> <<>>, description |-> "",
     update_fields |-> {},
     translation_key |-> KeyInstance(0, KeyRow("p1", <<>>, "", 0)),
     translation_value |-> ValueInstance(0, ValueRow(0, "en", "")),
     language |-> "en", value |-> "", values_data |-> <<>>,
     to_create |-> <<>>, to_update |-> <<>>]

NoTTx == [keys |-> NoKeys, values |-> NoValues]

NoTRet == [result |-> "none", extra |-> <<>>, key |-> <<>>,
           created |-> <<>>, updated |-> <<>>]

Init ==
    /\ projects = {}
    /\ pdata = NoProjects
    /\ now = 0
    /\ gone = {}
    /\ db = NoRows
    /\ nextId = 1
    /\ pc = [r \in Reqs |-> "idle"]
    /\ call = [r \in Reqs |-> NoCall]
    /\ tx = [r \in Reqs |-> NoTx]
    /\ ret = [r \in Reqs |-> NoRet]
    /\ keys = NoKeys
    /\ values = NoValues
    /\ nextKey = 1
    /\ nextVal = 1
    /\ tpc = [t \in TReqs |-> "idle"]
    /\ tcall = [t \in TReqs |-> NoTCall]
    /\ ttx = [t \in TReqs |-> NoTTx]
    /\ tret = [t \in TReqs |-> NoTRet]

\* ------------------------------------------------- constraints, validation
\* the unique constraint on (project, language) is missing
no_unique_project_language(a, b) == TRUE

\* models.py Meta.constraints, as conditions on a pair of rows
unique_project_language(a, b) ==
    ~(a.project = b.project /\ a.language = b.language)

\* the partial unique index is missing
no_unique_base_language(a, b) == TRUE

unique_base_language_per_project(a, b) ==
    ~(a.project = b.project /\ a.is_base_language /\ b.is_base_language)

\* the row new (primary key k) does not break a constraint against the rows V
ConstraintsHold(V, k, new) ==
    \A j \in DOMAIN V \ {k} :
        /\ unique_project_language(V[j], new)
        /\ unique_base_language_per_project(V[j], new)

\* ProjectLanguage.clean: the project must keep a base language
clean(V, k, new) ==
    ~(BaseRows(V, new.project) \ {k} = {} /\ ~new.is_base_language)

\* Model.full_clean: field validation, clean(), unique and constraint checks
full_clean(V, k, new) ==
    /\ new.language \in LanguageChoices
    /\ new.project \in projects
    /\ clean(V, k, new)
    /\ ConstraintsHold(V, k, new)

\* an INSERT / UPDATE waits for a transaction in progress that has written a
\* row it conflicts with
WaitsForUncommitted(r, k, new) ==
    \E o \in Reqs \ {r} : ~ConstraintsHold(UncommittedOf(o), k, new)

\* ---------------------------------------------------------- statements
\* the demotion without the project filter
demote_base_everywhere(t, p) ==
    LET V == ViewOf(t)
    IN  TxWrite(t, [k \in {j \in DOMAIN V : V[j].is_base_language} |->
                        [V[k] EXCEPT !.is_base_language = FALSE]])

\* UPDATE ... SET is_base_language = FALSE WHERE project = p AND is_base_language
demote_base(t, p) ==
    LET V == ViewOf(t)
    IN  TxWrite(t, [k \in BaseRows(V, p) |->
                        [V[k] EXCEPT !.is_base_language = FALSE]])

\* UPDATE ... SET is_base_language = TRUE WHERE project = p AND pk = k
promote(t, p, k) ==
    LET V == ViewOf(t)
    IN  TxWrite(t, [j \in ProjectRows(V, p) \cap {k} |->
                        [V[j] EXCEPT !.is_base_language = TRUE]])

\* the query is made without select_for_update(): no row is locked
select_without_lock(t, o) == t

\* the rows select_for_update() keeps locked after `.exists()` found the row o
select_for_update(t, o) == [t EXCEPT !.lk = @ \cup {o}]

\* ------------------------------------------------------ end of a call
Idle(r) == pc[r] \in {"idle", "done"}

InFlight(r) == ~Idle(r)

\* the transaction t commits and the call returns
Commit(r, t, result, rows) ==
    /\ db' = ViewOf(t)
    /\ tx' = [tx EXCEPT ![r] = NoTx]
    /\ pc' = [pc EXCEPT ![r] = "done"]
    /\ ret' = [ret EXCEPT ![r] = [result |-> result, rows |-> rows]]

\* the exception does not undo the statements already executed
rollback_keeps_writes(r, result) ==
    /\ db' = View(r)
    /\ tx' = [tx EXCEPT ![r] = NoTx]
    /\ pc' = [pc EXCEPT ![r] = "done"]
    /\ ret' = [ret EXCEPT ![r] = [result |-> result, rows |-> <<>>]]

\* an exception leaves the atomic block: the transaction is rolled back
Rollback(r, result) ==
    /\ db' = db
    /\ tx' = [tx EXCEPT ![r] = NoTx]
    /\ pc' = [pc EXCEPT ![r] = "done"]
    /\ ret' = [ret EXCEPT ![r] = [result |-> result, rows |-> <<>>]]

\* without transaction.atomic every statement commits on its own
goto_autocommit(r, t, next) ==
    /\ db' = ViewOf(t)
    /\ tx' = [tx EXCEPT ![r] = NoTx]
    /\ pc' = [pc EXCEPT ![r] = next]
    /\ ret' = ret

\* the call goes on to its next statement
Goto(r, t, next) ==
    /\ db' = db
    /\ tx' = [tx EXCEPT ![r] = t]
    /\ pc' = [pc EXCEPT ![r] = next]
    /\ ret' = ret

\* --------------------------------------------------------- Project Store
\* validate_slug: one or more of the characters [-a-zA-Z0-9_]
SlugChars == {"s", "1", "2", "-", "_"}

validate_slug(s) == s # <<>> /\ \A i \in 1..Len(s) : s[i] \in SlugChars

\* Project.full_clean: the slug validator, the blank check of name, the
\* unique slug (projects/models.py 14-26)
project_full_clean(P, p, new) ==
    /\ validate_slug(new.slug)
    /\ new.name # ""
    /\ \A q \in DOMAIN P \ {p} : P[q].slug # new.slug

\* utils.py project_create: the project p is created with the fields given
project_create(p, slug, name, description) ==
    /\ p \notin projects \cup gone
    /\ project_full_clean(pdata, p,
                          ProjectRow(slug, name, description, now, now))
    /\ projects' = projects \cup {p}
    /\ pdata' = Overlay(pdata,
                        p :> ProjectRow(slug, name, description, now, now))
    /\ UNCHANGED <<now, gone, db, nextId, pc, call, tx, ret, keys, values,
                   tvars>>

\* utils.py project_delete: project.delete() cascades to the project's
\* languages, translation keys and their values; it waits for the
\* transactions that hold rows of the project
project_delete(p) ==
    /\ p \in projects
    /\ \A r \in Reqs :
          /\ \A k \in tx[r].lk : k \in DOMAIN db => db[k].project # p
          /\ \A k \in DOMAIN tx[r].rows : tx[r].rows[k].project # p
    /\ \A t \in TReqs :
          /\ \A k \in DOMAIN ttx[t].keys : ttx[t].keys[k].project # p
          /\ \A v \in DOMAIN ttx[t].values :
                LET K == Overlay(keys, ttx[t].keys)
                    tk == ttx[t].values[v].translation_key
                IN  tk \in DOMAIN K => K[tk].project # p
    /\ projects' = projects \ {p}
    /\ pdata' = [q \in DOMAIN pdata \ {p} |-> pdata[q]]
    /\ gone' = gone \cup {p}
    /\ db' = [k \in DOMAIN db \ ProjectRows(db, p) |-> db[k]]
    /\ keys' = [k \in {j \in DOMAIN keys : keys[j].project # p} |-> keys[k]]
    /\ values' = [k \in {j \in DOMAIN values :
                            \/ values[j].translation_key \notin DOMAIN keys
                            \/ keys[values[j].translation_key].project # p}
                    |-> values[k]]
    /\ UNCHANGED <<now, nextId, pc, call, tx, ret, tvars>>

\* --------------------------------------------------------- project_update
\* time passes
clock_tick ==
    /\ now < MaxTime
    /\ now' = now + 1
    /\ UNCHANGED <<projects, pdata, gone, db, nextId, pc, call, tx, ret, keys,
                   values, tvars>>

\* the caller's call project_update(project=<row p>, ...) with the arguments
\* named in F given (not None); utils.py 59-71 set the fields of the instance
call_project_update(r, p, F, slug, name, description) ==
    /\ Idle(r)
    /\ p \in projects
    /\ call' = [call EXCEPT ![r] =
                   [NoCall EXCEPT
                       !.kind = "project_update", !.project = p,
                       !.update_fields = F,
                       !.instance =
                           [ProjectInstance(p, pdata[p]) EXCEPT
                               !.slug = IF "slug" \in F THEN slug ELSE @,
                               !.name = IF "name" \in F THEN name ELSE @,
                               !.description =
                                   IF "description" \in F THEN description
                                   ELSE @]]]
    /\ pc' = [pc EXCEPT ![r] = "pu_clean"]
    /\ ret' = [ret EXCEPT ![r] = NoRet]
    /\ UNCHANGED <<projects, pdata, now, gone, db, nextId, tx>>
    /\ TranslationsUnchanged

\* the row an instance stands for
ProjectRowOf(h) ==
    ProjectRow(h.slug, h.name, h.description, h.created_at, h.updated_at)

\* the return for a call without fields is left out
pu_always_update(F) == FALSE

\* utils.py 73: `not update_fields`
pu_no_update_fields(F) == F = {}

\* utils.py 73-76: the return when nothing is given, else full_clean()
pu_clean(r) ==
    /\ pc[r] = "pu_clean"
    /\ LET h == call[r].instance
       IN  IF pu_no_update_fields(call[r].update_fields)
           THEN /\ pc' = [pc EXCEPT ![r] = "done"]
                /\ ret' = [ret EXCEPT ![r] =
                              [result |-> "ok", rows |-> <<h>>]]
           ELSE IF project_full_clean(pdata, h.pk, ProjectRowOf(h))
           THEN /\ pc' = [pc EXCEPT ![r] = "pu_save"]
                /\ ret' = ret
           ELSE /\ pc' = [pc EXCEPT ![r] = "done"]
                /\ ret' = [ret EXCEPT ![r] =
                              [result |-> "ValidationError", rows |-> <<>>]]
    /\ UNCHANGED <<projects, pdata, now, gone, db, nextId, call, tx>>
    /\ TranslationsUnchanged

\* the columns save(update_fields=[*update_fields, "updated_at"]) writes
\* besides updated_at
pu_written_fields(F) == F

\* utils.py 77: save(update_fields=...), which validates again and updates
\* the columns named; auto_now sets updated_at
pu_save(r) ==
    /\ pc[r] = "pu_save"
    /\ LET h == call[r].instance
           W == pu_written_fields(call[r].update_fields)
           new == [pdata[h.pk] EXCEPT
                      !.slug = IF "slug" \in W THEN h.slug ELSE @,
                      !.name = IF "name" \in W THEN h.name ELSE @,
                      !.description =
                          IF "description" \in W THEN h.description ELSE @,
                      !.updated_at = now]
       IN  IF ~project_full_clean(pdata, h.pk, ProjectRowOf(h))
           THEN /\ ret' = [ret EXCEPT ![r] =
                              [result |-> "ValidationError", rows |-> <<>>]]
                /\ pdata' = pdata
           ELSE IF h.pk \notin projects
           THEN /\ ret' = [ret EXCEPT ![r] =
                              [result |-> "DatabaseError", rows |-> <<>>]]
                /\ pdata' = pdata
           ELSE /\ ret' = [ret EXCEPT ![r] =
                              [result |-> "ok",
                               rows |-> <<[h EXCEPT !.updated_at = now]>>]]
                /\ pdata' = Overlay(pdata, h.pk :> new)
    /\ pc' = [pc EXCEPT ![r] = "done"]
    /\ UNCHANGED <<projects, now, gone, db, nextId, call, tx>>
    /\ TranslationsUnchanged

\* ------------------------------------------------- project_language_add
\* the caller's call project_language_add(project=p, language=c,
\* is_base_language=b); the new instance gets its primary key
call_add(r, p, c, b) ==
    /\ Idle(r)
    /\ p \in projects
    /\ nextId <= MaxId
    /\ call' = [call EXCEPT ![r] =
                    [NoCall EXCEPT !.kind = "add", !.project = p,
                                   !.language = c, !.is_base_language = b,
                                   !.requested_base = b, !.pk = nextId]]
    /\ nextId' = nextId + 1
    /\ pc' = [pc EXCEPT ![r] = "add_exists"]
    /\ ret' = [ret EXCEPT ![r] = NoRet]
    /\ UNCHANGED <<projects, pdata, now, gone, db, tx>>
    /\ TranslationsUnchanged

\* the first language is not forced to be the base
add_exists_noforce(r) ==
    /\ pc[r] = "add_exists"
    /\ LET has_languages == ProjectRows(View(r), call[r].project) # {}
       IN  /\ call' = [call EXCEPT ![r].has_languages = has_languages]
           /\ Goto(r, tx[r],
                   IF call[r].is_base_language THEN "add_demote"
                                               ELSE "add_clean")
    /\ UNCHANGED <<projects, pdata, now, gone, nextId>>
    /\ TranslationsUnchanged

\* every new language is made the base, whether or not the project has rows
add_exists_always_base(r) ==
    /\ pc[r] = "add_exists"
    /\ LET has_languages == ProjectRows(View(r), call[r].project) # {}
       IN  /\ call' = [call EXCEPT ![r].has_languages = has_languages,
                                   ![r].is_base_language = TRUE]
           /\ Goto(r, tx[r], "add_demote")
    /\ UNCHANGED <<projects, pdata, now, gone, nextId>>
    /\ TranslationsUnchanged

\* utils.py 102-105: has_languages, and the forced base of a first language
add_exists(r) ==
    /\ pc[r] = "add_exists"
    /\ LET has_languages == ProjectRows(View(r), call[r].project) # {}
           is_base_language ==
               IF ~has_languages THEN TRUE ELSE call[r].is_base_language
       IN  /\ call' = [call EXCEPT ![r].has_languages = has_languages,
                                   ![r].is_base_language = is_base_language]
           /\ Goto(r, tx[r],
                   IF is_base_language THEN "add_demote" ELSE "add_clean")
    /\ UNCHANGED <<projects, pdata, now, gone, nextId>>
    /\ TranslationsUnchanged

\* utils.py 107-111: the current base is demoted
add_demote(r) ==
    /\ pc[r] = "add_demote"
    /\ \A k \in BaseRows(View(r), call[r].project) : ~LockedByOther(r, k)
    /\ Goto(r, demote_base(tx[r], call[r].project), "add_clean")
    /\ UNCHANGED <<projects, pdata, now, gone, nextId, call>>
    /\ TranslationsUnchanged

\* utils.py 113-118: project_language.full_clean()
add_clean(r) ==
    /\ pc[r] = "add_clean"
    /\ LET new == Row(call[r].project, call[r].language,
                      call[r].is_base_language)
       IN  IF full_clean(View(r), call[r].pk, new)
           THEN Goto(r, tx[r], "add_save")
           ELSE Rollback(r, "ValidationError")
    /\ UNCHANGED <<projects, pdata, now, gone, nextId, call>>
    /\ TranslationsUnchanged

\* utils.py 119-120: project_language.save() (BaseModel.save: full_clean,
\* then the INSERT), the return and the commit
add_save(r) ==
    /\ pc[r] = "add_save"
    /\ LET k == call[r].pk
           new == Row(call[r].project, call[r].language,
                      call[r].is_base_language)
       IN  /\ ~WaitsForUncommitted(r, k, new)
           /\ IF full_clean(View(r), k, new)
              THEN Commit(r, TxWrite(tx[r], k :> new), "ok",
                          <<Instance(k, new)>>)
              ELSE \E e \in {"ValidationError", "IntegrityError"} :
                       Rollback(r, e)
    /\ UNCHANGED <<projects, pdata, now, gone, nextId, call>>
    /\ TranslationsUnchanged

\* ---------------------------------------------- project_language_remove
\* the caller reads the row k into an instance and calls
\* project_language_remove(project_language=instance)
call_remove(r, k) ==
    /\ Idle(r)
    /\ k \in DOMAIN db
    /\ call' = [call EXCEPT ![r] =
                    [NoCall EXCEPT !.kind = "remove",
                                   !.project = db[k].project,
                                   !.project_language = Instance(k, db[k])]]
    /\ pc' = [pc EXCEPT ![r] = "rm_check"]
    /\ ret' = [ret EXCEPT ![r] = NoRet]
    /\ UNCHANGED <<projects, pdata, now, gone, db, nextId, tx>>
    /\ TranslationsUnchanged

\* the rows `languages.exclude(pk=...)` ranges over
OtherLanguages(r) ==
    ProjectRows(View(r), call[r].project_language.project)
        \ {call[r].project_language.pk}

\* the last-language check is left out
rm_check_no_last(r) ==
    /\ pc[r] = "rm_check"
    /\ IF call[r].project_language.is_base_language
       THEN Rollback(r, "ProjectError: base language")
       ELSE Goto(r, tx[r], "rm_model_check")
    /\ UNCHANGED <<projects, pdata, now, gone, nextId, call>>
    /\ TranslationsUnchanged

\* utils.py 137-149: the base check on the instance, the last-language check
rm_check(r) ==
    /\ pc[r] = "rm_check"
    /\ IF call[r].project_language.is_base_language
       THEN Rollback(r, "ProjectError: base language")
       ELSE IF OtherLanguages(r) = {}
       THEN Rollback(r, "ProjectError: last language")
       ELSE \E o \in OtherLanguages(r) :
               /\ ~LockedByOther(r, o)
               /\ Goto(r, select_for_update(tx[r], o), "rm_model_check")
    /\ UNCHANGED <<projects, pdata, now, gone, nextId, call>>
    /\ TranslationsUnchanged

\* models.py 131-144: ProjectLanguage.delete repeats both checks
rm_model_check(r) ==
    /\ pc[r] = "rm_model_check"
    /\ IF call[r].project_language.is_base_language
       THEN Rollback(r, "ValidationError")
       ELSE IF OtherLanguages(r) = {}
       THEN Rollback(r, "ValidationError")
       ELSE \E o \in OtherLanguages(r) :
               /\ ~LockedByOther(r, o)
               /\ Goto(r, select_for_update(tx[r], o), "rm_delete")
    /\ UNCHANGED <<projects, pdata, now, gone, nextId, call>>
    /\ TranslationsUnchanged

\* models.py 146: super().delete(), the DELETE of the row, and the commit
rm_delete(r) ==
    /\ pc[r] = "rm_delete"
    /\ LET k == call[r].project_language.pk
           S == {k} \cap DOMAIN View(r)
       IN  /\ \A j \in S : ~LockedByOther(r, j)
           /\ Commit(r, TxDelete(tx[r], S), "ok", <<>>)
    /\ UNCHANGED <<projects, pdata, now, gone, nextId, call>>
    /\ TranslationsUnchanged

\* -------------------------------------------- project_language_set_base
\* the caller reads the row k into an instance and calls
\* project_language_set_base(project_language=instance)
call_set_base(r, k) ==
    /\ Idle(r)
    /\ k \in DOMAIN db
    /\ call' = [call EXCEPT ![r] =
                    [NoCall EXCEPT !.kind = "set_base",
                                   !.project = db[k].project,
                                   !.project_language = Instance(k, db[k])]]
    /\ pc' = [pc EXCEPT ![r] = "sb_demote"]
    /\ ret' = [ret EXCEPT ![r] = NoRet]
    /\ UNCHANGED <<projects, pdata, now, gone, db, nextId, tx>>
    /\ TranslationsUnchanged

\* the caller calls project_language_set_base a second time with the same
\* instance, which the first call refreshed when it succeeded (the call
\* record keeps the instance as it was when the call was made)
call_set_base_again(r) ==
    /\ pc[r] = "done"
    /\ call[r].kind = "set_base"
    /\ ~call[r].again
    /\ call' = [call EXCEPT
                    ![r].again = TRUE,
                    ![r].project_language =
                        IF ret[r].result = "ok" THEN ret[r].rows[1] ELSE @]
    /\ pc' = [pc EXCEPT ![r] = "sb_demote"]
    /\ ret' = [ret EXCEPT ![r] = NoRet]
    /\ UNCHANGED <<projects, pdata, now, gone, db, nextId, tx>>
    /\ TranslationsUnchanged

\* a base instance is un-set instead of returned as it is
sb_demote_toggle(r) ==
    /\ pc[r] = "sb_demote"
    /\ LET h == call[r].project_language
       IN  /\ \A k \in BaseRows(View(r), h.project) : ~LockedByOther(r, k)
           /\ IF h.is_base_language
              THEN Commit(r, demote_base(tx[r], h.project), "ok", <<h>>)
              ELSE Goto(r, demote_base(tx[r], h.project), "sb_promote")
    /\ UNCHANGED <<projects, pdata, now, gone, nextId, call>>
    /\ TranslationsUnchanged

\* utils.py 168-179: the no-op on a base instance, else the demotion
sb_demote(r) ==
    /\ pc[r] = "sb_demote"
    /\ LET h == call[r].project_language
       IN  IF h.is_base_language
           THEN Commit(r, tx[r], "ok", <<h>>)
           ELSE /\ \A k \in BaseRows(View(r), h.project) :
                       ~LockedByOther(r, k)
                /\ Goto(r, demote_base(tx[r], h.project), "sb_promote")
    /\ UNCHANGED <<projects, pdata, now, gone, nextId, call>>
    /\ TranslationsUnchanged

\* utils.py 181-186: the promotion, refresh_from_db, the return and the commit
sb_promote(r) ==
    /\ pc[r] = "sb_promote"
    /\ LET h == call[r].project_language
           V == View(r)
           S == ProjectRows(V, h.project) \cap {h.pk}
           t == promote(tx[r], h.project, h.pk)
       IN  /\ \A k \in S : ~LockedByOther(r, k)
           /\ \A k \in S : ~WaitsForUncommitted(r, k, ViewOf(t)[k])
           /\ IF \E k \in S : ~ConstraintsHold(V, k, ViewOf(t)[k])
              THEN Rollback(r, "IntegrityError")
              ELSE IF h.pk \notin DOMAIN ViewOf(t)
              THEN Rollback(r, "DoesNotExist")
              ELSE Commit(r, t, "ok", <<Instance(h.pk, ViewOf(t)[h.pk])>>)
    /\ UNCHANGED <<projects, pdata, now, gone, nextId, call>>
    /\ TranslationsUnchanged

\* --------------------------------------------- project_language_bulk_add
Items == [language : Codes, is_base_language : BOOLEAN]

ItemLists(C) ==
    UNION {[1..n -> {i \in Items : i.language \in C}] : n \in 0..MaxItems}

\* the caller's call project_language_bulk_add(project=p, languages_data=l);
\* each new instance gets its primary key
call_bulk_add(r, p, l) ==
    /\ Idle(r)
    /\ p \in projects
    /\ nextId + Len(l) - 1 <= MaxId
    /\ call' = [call EXCEPT ![r] =
                    [NoCall EXCEPT !.kind = "bulk_add", !.project = p,
                                   !.languages_data = l, !.pk = nextId,
                                   !.requested_base =
                                       \E i \in 1..Len(l) :
                                           l[i].is_base_language]]
    /\ nextId' = nextId + Len(l)
    /\ pc' = [pc EXCEPT ![r] = "bulk_exists"]
    /\ ret' = [ret EXCEPT ![r] = NoRet]
    /\ UNCHANGED <<projects, pdata, now, gone, db, tx>>
    /\ TranslationsUnchanged

\* only the first entry that asks for base is counted
first_base_entry(l) ==
    {i \in 1..Len(l) : /\ l[i].is_base_language
                       /\ \A j \in 1..(i - 1) : ~l[j].is_base_language}

base_entries(l) == {i \in 1..Len(l) : l[i].is_base_language}

\* the first entry is not forced to be the base on a project without rows
bulk_exists_noforce(r) ==
    /\ pc[r] = "bulk_exists"
    /\ LET l == call[r].languages_data
           has_languages == ProjectRows(View(r), call[r].project) # {}
       IN  IF Cardinality(base_entries(l)) > 1
           THEN /\ Rollback(r, "ProjectError: one base")
                /\ call' = call
           ELSE IF l = <<>>
           THEN /\ Commit(r, tx[r], "ok", <<>>)
                /\ call' = [call EXCEPT ![r].has_languages = has_languages]
           ELSE /\ call' = [call EXCEPT ![r].has_languages = has_languages,
                                        ![r].idx = 1]
                /\ Goto(r, tx[r],
                        IF base_entries(l) # {} THEN "bulk_demote"
                                                ELSE "bulk_clean")
    /\ UNCHANGED <<projects, pdata, now, gone, nextId>>
    /\ TranslationsUnchanged

\* utils.py 212-225: at most one base entry, has_languages, and the forced
\* base of the first entry
bulk_exists(r) ==
    /\ pc[r] = "bulk_exists"
    /\ LET l == call[r].languages_data
           has_languages == ProjectRows(View(r), call[r].project) # {}
           has_new_base == Cardinality(base_entries(l)) = 1
       IN  IF Cardinality(base_entries(l)) > 1
           THEN /\ Rollback(r, "ProjectError: one base")
                /\ call' = call
           ELSE IF ~has_languages /\ ~has_new_base
           THEN IF l = <<>>
                THEN /\ Rollback(r, "IndexError")
                     /\ call' = call
                ELSE /\ call' = [call EXCEPT
                           ![r].languages_data[1].is_base_language = TRUE,
                           ![r].idx = 1]
                     /\ Goto(r, tx[r], "bulk_demote")
           ELSE IF has_new_base
           THEN /\ call' = [call EXCEPT ![r].has_languages = has_languages,
                                        ![r].idx = 1]
                /\ Goto(r, tx[r], "bulk_demote")
           ELSE IF l = <<>>
           THEN /\ Commit(r, tx[r], "ok", <<>>)
                /\ call' = [call EXCEPT ![r].has_languages = has_languages]
           ELSE /\ call' = [call EXCEPT ![r].has_languages = has_languages,
                                        ![r].idx = 1]
                /\ Goto(r, tx[r], "bulk_clean")
    /\ UNCHANGED <<projects, pdata, now, gone, nextId>>
    /\ TranslationsUnchanged

\* utils.py 227-231: the current base is demoted
bulk_demote(r) ==
    /\ pc[r] = "bulk_demote"
    /\ \A k \in BaseRows(View(r), call[r].project) : ~LockedByOther(r, k)
    /\ Goto(r, demote_base(tx[r], call[r].project), "bulk_clean")
    /\ UNCHANGED <<projects, pdata, now, gone, nextId, call>>
    /\ TranslationsUnchanged

\* the instance built from the entry at idx (utils.py 235-239)
BulkPk(r) == call[r].pk + call[r].idx - 1

BulkRow(r) ==
    Row(call[r].project, call[r].languages_data[call[r].idx].language,
        call[r].languages_data[call[r].idx].is_base_language)

\* an entry that fails full_clean() ends the call with the earlier
\* statements committed
bulk_clean_keeps_earlier(r) ==
    /\ pc[r] = "bulk_clean"
    /\ IF full_clean(View(r), BulkPk(r), BulkRow(r))
       THEN Goto(r, tx[r], "bulk_save")
       ELSE Commit(r, tx[r], "ValidationError", <<>>)
    /\ UNCHANGED <<projects, pdata, now, gone, nextId, call>>
    /\ TranslationsUnchanged

\* utils.py 240: pl.full_clean()
bulk_clean(r) ==
    /\ pc[r] = "bulk_clean"
    /\ IF full_clean(View(r), BulkPk(r), BulkRow(r))
       THEN Goto(r, tx[r], "bulk_save")
       ELSE Rollback(r, "ValidationError")
    /\ UNCHANGED <<projects, pdata, now, gone, nextId, call>>
    /\ TranslationsUnchanged

\* utils.py 241-244: pl.save(), the next entry, or the return and the commit
bulk_save(r) ==
    /\ pc[r] = "bulk_save"
    /\ ~WaitsForUncommitted(r, BulkPk(r), BulkRow(r))
    /\ IF ~full_clean(View(r), BulkPk(r), BulkRow(r))
       THEN /\ \E e \in {"ValidationError", "IntegrityError"} : Rollback(r, e)
            /\ call' = call
       ELSE LET t == TxWrite(tx[r], BulkPk(r) :> BulkRow(r))
                n == Len(call[r].languages_data)
            IN  IF call[r].idx = n
                THEN /\ Commit(r, t, "ok",
                           [i \in 1..n |->
                               Instance(call[r].pk + i - 1,
                                        [BulkRow(r) EXCEPT
                                           !.language =
                                             call[r].languages_data[i].language,
                                           !.is_base_language =
                                             call[r].languages_data[i].is_base_language])])
                     /\ call' = call
                ELSE /\ Goto(r, t, "bulk_clean")
                     /\ call' = [call EXCEPT ![r].idx = @ + 1]
    /\ UNCHANGED <<projects, pdata, now, gone, nextId>>
    /\ TranslationsUnchanged

\* ------------------------------------------------------------ lock waits
\* the next statement of r waits for a row lock another transaction holds
Blocked(r) ==
    CASE pc[r] \in {"add_demote", "bulk_demote"} ->
            \E k \in BaseRows(View(r), call[r].project) : LockedByOther(r, k)
      [] pc[r] = "sb_demote" ->
            /\ ~call[r].project_language.is_base_language
            /\ \E k \in BaseRows(View(r), call[r].project_language.project) :
                   LockedByOther(r, k)
      [] pc[r] = "add_save" ->
            WaitsForUncommitted(r, call[r].pk,
                Row(call[r].project, call[r].language,
                    call[r].is_base_language))
      [] pc[r] = "bulk_save" ->
            WaitsForUncommitted(r, BulkPk(r), BulkRow(r))
      [] pc[r] \in {"rm_check", "rm_model_check"} ->
            /\ ~call[r].project_language.is_base_language
            /\ OtherLanguages(r) # {}
            /\ \A o \in OtherLanguages(r) : LockedByOther(r, o)
      [] pc[r] = "rm_delete" ->
            \E k \in {call[r].project_language.pk} \cap DOMAIN View(r) :
                LockedByOther(r, k)
      [] pc[r] = "sb_promote" ->
            LET h == call[r].project_language
                t == promote(tx[r], h.project, h.pk)
            IN  \E k \in ProjectRows(View(r), h.project) \cap {h.pk} :
                    \/ LockedByOther(r, k)
                    \/ WaitsForUncommitted(r, k, ViewOf(t)[k])
      [] OTHER -> FALSE

\* two transactions wait for each other: the store ends one of them with an
\* error, and transaction.atomic rolls it back
deadlock_abort(r) ==
    /\ Blocked(r)
    /\ \E o \in Reqs \ {r} : Blocked(o)
    /\ Rollback(r, "OperationalError")
    /\ UNCHANGED <<projects, pdata, now, gone, nextId, call>>
    /\ TranslationsUnchanged

\* ------------------------------------------------------- specifications
Step(r) ==
    \/ add_exists(r) \/ add_demote(r) \/ add_clean(r) \/ add_save(r)
    \/ rm_check(r) \/ rm_model_check(r) \/ rm_delete(r)
    \/ sb_demote(r) \/ sb_promote(r)
    \/ bulk_exists(r) \/ bulk_demote(r) \/ bulk_clean(r) \/ bulk_save(r)

\* the calls and steps of the requests R on the projects P with the codes C
Requests(P, C, R) ==
    \E r \in R :
        \/ \E p \in P, c \in C, b \in BOOLEAN : call_add(r, p, c, b)
        \/ \E k \in 1..MaxId : call_remove(r, k)
        \/ \E k \in 1..MaxId : call_set_base(r, k)
        \/ call_set_base_again(r)
        \/ \E p \in P, l \in ItemLists(C) : call_bulk_add(r, p, l)
        \/ Step(r)

\* the slug and the name each project is created with
SlugOf(p) == IF p = "p1" THEN <<"s", "1">> ELSE <<"s", "2">>

NameOf(p) == IF p = "p1" THEN "n1" ELSE "n2"

\* concurrent requests on one project
Next ==
    \/ \E p \in {"p1"} : project_create(p, SlugOf(p), NameOf(p), "")
    \/ \E p \in {"p1"} : project_delete(p)
    \/ Requests({"p1"}, LanguageChoices, Reqs)
    \/ \E r \in Reqs : deadlock_abort(r)

Spec == Init /\ [][Next]_vars

\* one call at a time, on every project and with every code
NextSeq ==
    \/ \E p \in ProjectIds :
           Idle("r1") /\ project_create(p, SlugOf(p), NameOf(p), "")
    \/ \E p \in ProjectIds : Idle("r1") /\ project_delete(p)
    \/ Requests(ProjectIds, Codes, {"r1"})

SpecSeq == Init /\ [][NextSeq]_vars

\* ===================================================== translations
\* translations/utils.py over the tables TranslationKey and TranslationValue.
\* Only translation_value_bulk_update and translation_key_create_with_values
\* are wrapped in transaction.atomic; the other functions run with every
\* statement committed on its own.

\* ------------------------------------------------------------ key texts
\* a key text is a sequence of characters
LowerChars == {"a", "b", "1"}

Separators == {".", "_"}

\* the capitals are mapped to the wrong letters
lower_char_swapped(c) == CASE c = "A" -> "b" [] c = "B" -> "a" [] OTHER -> c

\* str.lower(), character by character
lower_char(c) == CASE c = "A" -> "a" [] c = "B" -> "b" [] OTHER -> c

lower(s) == [i \in DOMAIN s |-> lower_char(s[i])]

\* the text matches [a-z0-9]+(?:[._][a-z0-9]+)* as a whole
MatchesKeyPattern(s) ==
    /\ s # <<>>
    /\ \A i \in 1..Len(s) :
          \/ s[i] \in LowerChars
          \/ /\ s[i] \in Separators
             /\ 1 < i /\ i < Len(s)
             /\ s[i - 1] \in LowerChars /\ s[i + 1] \in LowerChars

\* models.py 7-11, RegexValidator: regex.search with ^ and $, and $ also
\* matches before a newline that ends the text
key_validator(s) ==
    \/ MatchesKeyPattern(s)
    \/ /\ s # <<>> /\ s[Len(s)] = "\n"
       /\ MatchesKeyPattern(SubSeq(s, 1, Len(s) - 1))

\* ------------------------------------------------------- transactions
TIdle(t) == tpc[t] \in {"idle", "done"}

\* primary keys are given out at the insert; a call starts only when the
\* rows it may insert, with those of the calls in progress, are within the
\* bounds
KeysNeeded(t) ==
    IF /\ ~TIdle(t)
       /\ tcall[t].kind \in {"key_create", "key_create_with_values"}
       /\ tcall[t].translation_key.pk = 0
    THEN 1 ELSE 0

\* the entries of the list d whose language has no row of the key k in V
EntriesToCreate(V, k, d) ==
    Cardinality({i \in 1..Len(d) :
                    \A j \in DOMAIN V :
                        ~(V[j].translation_key = k
                              /\ V[j].language = d[i].language)})

ValuesNeeded(t) ==
    IF TIdle(t) THEN 0
    ELSE IF tcall[t].kind = "value_create" THEN 1
    ELSE IF tcall[t].kind \in {"value_bulk_update", "key_create_with_values"}
    THEN EntriesToCreate(Overlay(values, ttx[t].values),
                         tcall[t].translation_key.pk, tcall[t].values_data)
    ELSE 0

RECURSIVE KeysReserved(_)
KeysReserved(T) ==
    IF T = {} THEN 0
    ELSE LET t == CHOOSE x \in T : TRUE
         IN  KeysNeeded(t) + KeysReserved(T \ {t})

RECURSIVE ValuesReserved(_)
ValuesReserved(T) ==
    IF T = {} THEN 0
    ELSE LET t == CHOOSE x \in T : TRUE
         IN  ValuesNeeded(t) + ValuesReserved(T \ {t})

\* the rows a translation request sees: committed rows and its own writes
KeysView(t) == Overlay(keys, ttx[t].keys)

ValuesView(t) == Overlay(values, ttx[t].values)

\* rows of the other translation requests that are not yet committed
OtherKeys(t) ==
    UNION {{ttx[o].keys[k] : k \in DOMAIN ttx[o].keys} : o \in TReqs \ {t}}

OtherValues(t) ==
    UNION {{ttx[o].values[k] : k \in DOMAIN ttx[o].values} :
               o \in TReqs \ {t}}

\* the unique constraint on (key, project) is missing
no_unique_key_per_project(a, b) == TRUE

\* models.py 49-54
unique_key_per_project(a, b) == ~(a.key = b.key /\ a.project = b.project)

\* the unique constraint on (translation_key, language) is missing
no_unique_translation_per_language(a, b) == TRUE

\* models.py 105-110
unique_translation_per_language(a, b) ==
    ~(a.translation_key = b.translation_key /\ a.language = b.language)

\* the call returns: its writes w (keys) and v (values) become committed
TCommit(t, w, v, out) ==
    /\ keys' = Overlay(keys, w)
    /\ values' = Overlay(values, v)
    /\ ttx' = [ttx EXCEPT ![t] = NoTTx]
    /\ tpc' = [tpc EXCEPT ![t] = "done"]
    /\ tret' = [tret EXCEPT ![t] = out]

\* the exception does not undo what the call has written
raise_keeps_writes(t, result, extra) ==
    /\ keys' = Overlay(keys, ttx[t].keys)
    /\ values' = Overlay(values, ttx[t].values)
    /\ ttx' = [ttx EXCEPT ![t] = NoTTx]
    /\ tpc' = [tpc EXCEPT ![t] = "done"]
    /\ tret' = [tret EXCEPT ![t] =
                   [NoTRet EXCEPT !.result = result, !.extra = extra]]

\* the call raises: what it wrote inside an atomic block is rolled back
TRaise(t, result, extra) ==
    /\ keys' = keys
    /\ values' = values
    /\ ttx' = [ttx EXCEPT ![t] = NoTTx]
    /\ tpc' = [tpc EXCEPT ![t] = "done"]
    /\ tret' = [tret EXCEPT ![t] =
                   [NoTRet EXCEPT !.result = result, !.extra = extra]]

\* the call goes on to its next statement
TGoto(t, w, next) ==
    /\ keys' = keys
    /\ values' = values
    /\ ttx' = [ttx EXCEPT ![t] = w]
    /\ tpc' = [tpc EXCEPT ![t] = next]
    /\ tret' = tret

\* the translation calls do not touch projects and languages
LanguagesUnchanged ==
    UNCHANGED <<projects, pdata, now, gone, db, nextId, pc, call, tx, ret>>

\* ------------------------------------------------ translation_key_create
\* the caller's call translation_key_create(project=p, key=k,
\* description=d)
call_key_create(t, p, k, d) ==
    /\ TIdle(t)
    /\ p \in projects
    /\ nextKey + KeysReserved(TReqs \ {t}) <= MaxKeyId
    /\ tcall' = [tcall EXCEPT ![t] =
                    [NoTCall EXCEPT !.kind = "key_create", !.project = p,
                                    !.key = k, !.description = d]]
    /\ tpc' = [tpc EXCEPT ![t] = "kc_clean"]
    /\ tret' = [tret EXCEPT ![t] = NoTRet]
    /\ UNCHANGED <<keys, values, nextKey, nextVal, ttx>>
    /\ LanguagesUnchanged

\* TranslationKey.full_clean: the validators of key, the project, the
\* unique constraint (models.py 32-54); clean() lower-cases the text
key_full_clean(V, k, new) ==
    /\ key_validator(new.key)
    /\ new.project \in projects
    /\ \A j \in DOMAIN V \ {k} : unique_key_per_project(V[j], new)

\* the row an instance stands for
KeyRowOf(h) == KeyRow(h.project, h.key, h.description, h.updated_at)

\* utils.py 24-31: key.lower(), the instance, full_clean()
kc_clean(t) ==
    /\ tpc[t] = "kc_clean"
    /\ LET h == KeyInstance(0, KeyRow(tcall[t].project, lower(tcall[t].key),
                                      tcall[t].description, now))
       IN  /\ tcall' = [tcall EXCEPT ![t].translation_key = h]
           /\ IF key_full_clean(KeysView(t), 0, KeyRowOf(h))
              THEN TGoto(t, ttx[t], "kc_save")
              ELSE TRaise(t, "ValidationError", <<>>)
    /\ UNCHANGED <<nextKey, nextVal>>
    /\ LanguagesUnchanged

\* utils.py 32: save(), which validates again and inserts the row
kc_save(t) ==
    /\ tpc[t] = "kc_save"
    /\ tcall[t].kind = "key_create"
    /\ LET new == [KeyRowOf(tcall[t].translation_key) EXCEPT
                      !.key = lower(@), !.updated_at = now]
       IN  /\ \A o \in OtherKeys(t) : unique_key_per_project(o, new)
           /\ IF key_full_clean(KeysView(t), 0, new)
              THEN /\ TCommit(t, nextKey :> new, NoValues,
                              [NoTRet EXCEPT !.result = "ok",
                                  !.key = <<KeyInstance(nextKey, new)>>])
                   /\ nextKey' = nextKey + 1
              ELSE /\ \E e \in {"ValidationError", "IntegrityError"} :
                          TRaise(t, e, <<>>)
                   /\ nextKey' = nextKey
    /\ UNCHANGED <<nextVal, tcall>>
    /\ LanguagesUnchanged

\* ---------------------------------------------- translation_value_create
\* the language codes the store has for the project p
ProjectLanguageCodes(p) == {db[k].language : k \in ProjectRows(db, p)}

\* the caller's call translation_value_create(translation_key=<row k>,
\* language=c, value=v)
call_value_create(t, k, c, v) ==
    /\ TIdle(t)
    /\ k \in DOMAIN keys
    /\ nextVal + ValuesReserved(TReqs \ {t}) <= MaxValId
    /\ tcall' = [tcall EXCEPT ![t] =
                    [NoTCall EXCEPT !.kind = "value_create",
                                    !.translation_key =
                                        KeyInstance(k, keys[k]),
                                    !.language = c, !.value = v]]
    /\ tpc' = [tpc EXCEPT ![t] = "vc_validate"]
    /\ tret' = [tret EXCEPT ![t] = NoTRet]
    /\ UNCHANGED <<keys, values, nextKey, nextVal, ttx>>
    /\ LanguagesUnchanged

\* every language is taken to be configured
validate_nothing(p, c) == TRUE

\* translation_key.project is read from the store when the instance has not
\* cached it; the project of a stale instance may have been deleted
ProjectGone(t) == tcall[t].translation_key.project \notin projects

\* utils.py 90-93: the language is among the ProjectLanguage rows of the
\* key's project
language_belongs_to_project(p, c) == c \in ProjectLanguageCodes(p)

\* utils.py 123-126: _validate_language_belongs_to_project
vc_validate(t) ==
    /\ tpc[t] = "vc_validate"
    /\ IF language_belongs_to_project(tcall[t].translation_key.project,
                                      tcall[t].language)
       THEN TGoto(t, ttx[t], "vc_clean")
       ELSE \/ TRaise(t, "TranslationError: language not configured",
                      <<tcall[t].language>>)
            \/ ProjectGone(t) /\ TRaise(t, "DoesNotExist", <<>>)
    /\ UNCHANGED <<nextKey, nextVal, tcall>>
    /\ LanguagesUnchanged

\* the validation also asks for the language to be configured
value_full_clean_configured(K, V, k, new) ==
    /\ new.language \in LanguageChoices
    /\ new.value # ""
    /\ new.translation_key \in DOMAIN K
    /\ new.language \in ProjectLanguageCodes(K[new.translation_key].project)
    /\ \A j \in DOMAIN V \ {k} : unique_translation_per_language(V[j], new)

\* TranslationValue.full_clean: the choices of language, the blank check of
\* value, the translation key, the unique constraint (models.py 89-110)
value_full_clean(K, V, k, new) ==
    /\ new.language \in LanguageChoices
    /\ new.value # ""
    /\ new.translation_key \in DOMAIN K
    /\ \A j \in DOMAIN V \ {k} : unique_translation_per_language(V[j], new)

\* the row translation_value_create builds (utils.py 128-132)
NewValue(t) ==
    ValueRow(tcall[t].translation_key.pk, tcall[t].language, tcall[t].value)

\* utils.py 133: full_clean()
vc_clean(t) ==
    /\ tpc[t] = "vc_clean"
    /\ IF value_full_clean(KeysView(t), ValuesView(t), 0, NewValue(t))
       THEN TGoto(t, ttx[t], "vc_save")
       ELSE TRaise(t, "ValidationError", <<>>)
    /\ UNCHANGED <<nextKey, nextVal, tcall>>
    /\ LanguagesUnchanged

\* utils.py 134: save(), which validates again and inserts the row
vc_save(t) ==
    /\ tpc[t] = "vc_save"
    /\ \A o \in OtherValues(t) :
          unique_translation_per_language(o, NewValue(t))
    /\ IF value_full_clean(KeysView(t), ValuesView(t), 0, NewValue(t))
       THEN /\ TCommit(t, NoKeys, nextVal :> NewValue(t),
                       [NoTRet EXCEPT !.result = "ok",
                           !.created =
                               <<ValueInstance(nextVal, NewValue(t))>>])
            /\ nextVal' = nextVal + 1
       ELSE /\ \E e \in {"ValidationError", "IntegrityError"} :
                   TRaise(t, e, <<>>)
            /\ nextVal' = nextVal
    /\ UNCHANGED <<nextKey, tcall>>
    /\ LanguagesUnchanged

\* ----------------------------------------- translation_value_bulk_update
\* the values_data lists with texts from W
ValueLists(W) ==
    UNION {[1..n -> [language : Codes, value : W]] : n \in 0..MaxItems}

\* the caller's call translation_value_bulk_update(translation_key=<row k>,
\* values_data=d)
call_value_bulk_update(t, k, d) ==
    /\ TIdle(t)
    /\ k \in DOMAIN keys
    /\ nextVal + EntriesToCreate(values, k, d) - 1
           + ValuesReserved(TReqs \ {t}) <= MaxValId
    /\ tcall' = [tcall EXCEPT ![t] =
                    [NoTCall EXCEPT !.kind = "value_bulk_update",
                                    !.translation_key =
                                        KeyInstance(k, keys[k]),
                                    !.values_data = d]]
    /\ tpc' = [tpc EXCEPT ![t] = "vb_validate"]
    /\ tret' = [tret EXCEPT ![t] = NoTRet]
    /\ UNCHANGED <<keys, values, nextKey, nextVal, ttx>>
    /\ LanguagesUnchanged

\* the codes in alphabetical order, and sorted() of a set of codes
CodeOrder == <<"en", "fr", "xx">>

sorted(S) == LET In(c) == c \in S IN SelectSeq(CodeOrder, In)

\* utils.py 186: the languages of the request
languages(d) == {d[i].language : i \in 1..Len(d)}

\* only the first invalid language is reported
first_invalid_language(p, d) ==
    LET bad == {i \in 1..Len(d) : d[i].language \notin ProjectLanguageCodes(p)}
    IN  {d[i].language : i \in {j \in bad : \A m \in bad : j <= m}}

\* utils.py 188-194: the requested languages the project does not have
invalid_languages(p, d) == languages(d) \ ProjectLanguageCodes(p)

\* utils.py 186-199: the membership check of the whole request
vb_validate(t) ==
    /\ tpc[t] = "vb_validate"
    /\ LET h == tcall[t].translation_key
           invalid == invalid_languages(h.project, tcall[t].values_data)
       IN  IF invalid # {}
           THEN \/ TRaise(t, "TranslationError: invalid languages",
                          sorted(invalid))
                \/ /\ tcall[t].kind = "value_bulk_update"
                   /\ ProjectGone(t)
                   /\ TRaise(t, "DoesNotExist", <<>>)
           ELSE TGoto(t, ttx[t], "vb_existing")
    /\ UNCHANGED <<nextKey, nextVal, tcall>>
    /\ LanguagesUnchanged

\* the last value the request has for the language c
LastValue(d, c) ==
    LET last == CHOOSE i \in 1..Len(d) :
                    /\ d[i].language = c
                    /\ \A j \in (i + 1)..Len(d) : d[j].language # c
    IN  d[last].value

\* utils.py 201-225: the existing rows of the key by language, and the rows
\* to create and to update
vb_existing(t) ==
    /\ tpc[t] = "vb_existing"
    /\ LET h == tcall[t].translation_key
           d == tcall[t].values_data
           V == ValuesView(t)
           existing(c) == {k \in DOMAIN V : /\ V[k].translation_key = h.pk
                                            /\ V[k].language = c}
           IsNew(i) == existing(d[i].language) = {}
           news == SelectSeq([i \in 1..Len(d) |-> i], IsNew)
           olds == SelectSeq([i \in 1..Len(d) |-> i],
                             LAMBDA i : ~IsNew(i))
       IN  /\ tcall' = [tcall EXCEPT
                 ![t].to_create =
                     [n \in 1..Len(news) |->
                         ValueInstance(0,
                             ValueRow(h.pk, d[news[n]].language,
                                      d[news[n]].value))],
                 ![t].to_update =
                     [n \in 1..Len(olds) |->
                         LET k == CHOOSE j \in existing(d[olds[n]].language) :
                                      TRUE
                         IN  ValueInstance(k,
                                 ValueRow(h.pk, d[olds[n]].language,
                                     LastValue(d, d[olds[n]].language)))]]
           /\ TGoto(t, ttx[t], "vb_create")
    /\ UNCHANGED <<nextKey, nextVal>>
    /\ LanguagesUnchanged

\* the rows of a list of instances
RowsOf(l) ==
    [k \in {l[i].pk : i \in 1..Len(l)} |->
        LET i == CHOOSE j \in 1..Len(l) : l[j].pk = k
        IN  ValueRow(l[i].translation_key, l[i].language, l[i].value)]

\* utils.py 227-229: bulk_create inserts the rows without validating them;
\* the store checks the unique constraint and the foreign key
vb_create(t) ==
    /\ tpc[t] = "vb_create"
    /\ LET new == [i \in 1..Len(tcall[t].to_create) |->
                      [tcall[t].to_create[i] EXCEPT !.pk = nextVal + i - 1]]
           V == ValuesView(t)
       IN  /\ \A i \in 1..Len(new), o \in OtherValues(t) :
                 unique_translation_per_language(o, new[i])
           /\ IF \/ \E i \in 1..Len(new), k \in DOMAIN V :
                        ~unique_translation_per_language(V[k], new[i])
                 \/ \E i, j \in 1..Len(new) :
                        i # j /\ ~unique_translation_per_language(new[i],
                                                                  new[j])
                 \/ new # <<>> /\ tcall[t].translation_key.pk
                                      \notin DOMAIN KeysView(t)
              THEN /\ TRaise(t, "IntegrityError", <<>>)
                   /\ UNCHANGED <<nextVal, tcall>>
              ELSE /\ TGoto(t, [ttx[t] EXCEPT
                                   !.values = Overlay(@, RowsOf(new))],
                            "vb_update")
                   /\ tcall' = [tcall EXCEPT ![t].to_create = new]
                   /\ nextVal' = nextVal + Len(new)
    /\ UNCHANGED nextKey
    /\ LanguagesUnchanged

\* bulk_update is left out: only the created rows are committed
vb_update_skipped(t) ==
    /\ tpc[t] = "vb_update"
    /\ TCommit(t, ttx[t].keys, ttx[t].values,
               [NoTRet EXCEPT !.result = "ok",
                              !.created = tcall[t].to_create,
                              !.updated = tcall[t].to_update])
    /\ UNCHANGED <<nextKey, nextVal, tcall>>
    /\ LanguagesUnchanged

\* utils.py 231-237: bulk_update of the existing rows, the return and the
\* commit
vb_update(t) ==
    /\ tpc[t] = "vb_update"
    /\ LET upd == RowsOf(tcall[t].to_update)
           V == ValuesView(t)
           w == [k \in DOMAIN upd \cap DOMAIN V |-> upd[k]]
       IN  TCommit(t, ttx[t].keys, Overlay(ttx[t].values, w),
                   [NoTRet EXCEPT !.result = "ok",
                                  !.key = IF tcall[t].kind = "value_bulk_update"
                                          THEN <<>>
                                          ELSE <<tcall[t].translation_key>>,
                                  !.created = tcall[t].to_create,
                                  !.updated = tcall[t].to_update])
    /\ UNCHANGED <<nextKey, nextVal, tcall>>
    /\ LanguagesUnchanged

\* ------------------------------------ translation_key_create_with_values
\* the caller's call translation_key_create_with_values(project=p, key=k,
\* description=d, values_data=vd); the key is created by kc_clean and kw_save
call_key_create_with_values(t, p, k, d, vd) ==
    /\ TIdle(t)
    /\ p \in projects
    /\ nextKey + KeysReserved(TReqs \ {t}) <= MaxKeyId
    /\ nextVal + Len(vd) - 1 + ValuesReserved(TReqs \ {t}) <= MaxValId
    /\ tcall' = [tcall EXCEPT ![t] =
                    [NoTCall EXCEPT !.kind = "key_create_with_values",
                                    !.project = p, !.key = k,
                                    !.description = d, !.values_data = vd]]
    /\ tpc' = [tpc EXCEPT ![t] = "kc_clean"]
    /\ tret' = [tret EXCEPT ![t] = NoTRet]
    /\ UNCHANGED <<keys, values, nextKey, nextVal, ttx>>
    /\ LanguagesUnchanged

\* utils.py 270-283: the save() of translation_key_create inside the atomic
\* block, then the values when values_data is not empty
kw_save(t) ==
    /\ tpc[t] = "kc_save"
    /\ tcall[t].kind = "key_create_with_values"
    /\ LET new == [KeyRowOf(tcall[t].translation_key) EXCEPT
                      !.key = lower(@), !.updated_at = now]
           h == KeyInstance(nextKey, new)
       IN  /\ \A o \in OtherKeys(t) : unique_key_per_project(o, new)
           /\ IF ~key_full_clean(KeysView(t), 0, new)
              THEN /\ \E e \in {"ValidationError", "IntegrityError"} :
                          TRaise(t, e, <<>>)
                   /\ UNCHANGED <<nextKey, tcall>>
              ELSE /\ nextKey' = nextKey + 1
                   /\ tcall' = [tcall EXCEPT ![t].translation_key = h]
                   /\ IF tcall[t].values_data # <<>>
                      THEN TGoto(t, [ttx[t] EXCEPT !.keys = nextKey :> new],
                                 "vb_validate")
                      ELSE TCommit(t, nextKey :> new, NoValues,
                                   [NoTRet EXCEPT !.result = "ok",
                                                  !.key = <<h>>])
    /\ UNCHANGED nextVal
    /\ LanguagesUnchanged

\* ------------------------------------------------ translation_key_update
\* the caller's call translation_key_update(translation_key=<row k>, ...)
\* with the arguments named in F given (not None); utils.py 54-62 set the
\* fields of the instance
call_key_update(t, k, F, key, d) ==
    /\ TIdle(t)
    /\ k \in DOMAIN keys
    /\ tcall' = [tcall EXCEPT ![t] =
                    [NoTCall EXCEPT
                        !.kind = "key_update",
                        !.update_fields = F,
                        !.key = IF "key" \in F THEN key ELSE @,
                        !.description = IF "description" \in F THEN d ELSE @,
                        !.translation_key =
                            [KeyInstance(k, keys[k]) EXCEPT
                                !.key = IF "key" \in F THEN lower(key) ELSE @,
                                !.description =
                                    IF "description" \in F THEN d ELSE @]]]
    /\ tpc' = [tpc EXCEPT ![t] = "ku_clean"]
    /\ tret' = [tret EXCEPT ![t] = NoTRet]
    /\ UNCHANGED <<keys, values, nextKey, nextVal, ttx>>
    /\ LanguagesUnchanged

\* utils.py 64: `not update_fields`
no_update_fields(F) == F = {}

\* utils.py 64-67: the return when nothing is given, else full_clean()
ku_clean(t) ==
    /\ tpc[t] = "ku_clean"
    /\ LET h == tcall[t].translation_key
       IN  IF no_update_fields(tcall[t].update_fields)
           THEN TCommit(t, NoKeys, NoValues,
                        [NoTRet EXCEPT !.result = "ok", !.key = <<h>>])
           ELSE IF key_full_clean(KeysView(t), h.pk, KeyRowOf(h))
           THEN TGoto(t, ttx[t], "ku_save")
           ELSE TRaise(t, "ValidationError", <<>>)
    /\ UNCHANGED <<nextKey, nextVal, tcall>>
    /\ LanguagesUnchanged

\* the columns save(update_fields=[*update_fields, "updated_at"]) writes
\* besides updated_at
written_fields(F) == F

\* utils.py 68: save(update_fields=...), which validates again and updates
\* the columns named; auto_now sets updated_at
ku_save(t) ==
    /\ tpc[t] = "ku_save"
    /\ LET h == tcall[t].translation_key
           W == written_fields(tcall[t].update_fields)
           new == [keys[h.pk] EXCEPT
                      !.key = IF "key" \in W THEN lower(h.key) ELSE @,
                      !.description =
                          IF "description" \in W THEN h.description ELSE @,
                      !.updated_at = now]
       IN  /\ \A o \in OtherKeys(t) : unique_key_per_project(o, KeyRowOf(h))
           /\ IF ~key_full_clean(KeysView(t), h.pk, KeyRowOf(h))
              THEN \E e \in {"ValidationError", "IntegrityError"} :
                      TRaise(t, e, <<>>)
              ELSE IF h.pk \notin DOMAIN keys
              THEN TRaise(t, "DatabaseError", <<>>)
              ELSE TCommit(t, h.pk :> new, NoValues,
                           [NoTRet EXCEPT !.result = "ok",
                               !.key = <<[h EXCEPT !.updated_at = now]>>])
    /\ UNCHANGED <<nextKey, nextVal, tcall>>
    /\ LanguagesUnchanged

\* ------------------------------------------------ translation_key_delete
\* only the key row is deleted
delete_key_only(V, k) == V

\* on_delete=CASCADE of TranslationValue.translation_key (models.py 89-94)
cascade_key(V, k) ==
    [v \in {j \in DOMAIN V : V[j].translation_key # k} |-> V[v]]

\* utils.py 79: translation_key.delete() on the instance of the row k; it
\* waits for the transactions that hold rows of the key
translation_key_delete(t, k) ==
    /\ TIdle(t)
    /\ k \in DOMAIN keys
    /\ \A o \in TReqs \ {t} :
          /\ k \notin DOMAIN ttx[o].keys
          /\ \A v \in DOMAIN ttx[o].values :
                ttx[o].values[v].translation_key # k
    /\ tcall' = [tcall EXCEPT ![t] =
                    [NoTCall EXCEPT !.kind = "key_delete",
                                    !.translation_key =
                                        KeyInstance(k, keys[k])]]
    /\ keys' = [j \in DOMAIN keys \ {k} |-> keys[j]]
    /\ values' = cascade_key(values, k)
    /\ tpc' = [tpc EXCEPT ![t] = "done"]
    /\ tret' = [tret EXCEPT ![t] = [NoTRet EXCEPT !.result = "ok"]]
    /\ UNCHANGED <<nextKey, nextVal, ttx>>
    /\ LanguagesUnchanged

\* ---------------------------------------------- translation_value_update
\* the caller's call translation_value_update(translation_value=<row v>,
\* value=text); utils.py 149 sets the value of the instance
call_value_update(t, v, text) ==
    /\ TIdle(t)
    /\ v \in DOMAIN values
    /\ tcall' = [tcall EXCEPT ![t] =
                    [NoTCall EXCEPT
                        !.kind = "value_update",
                        !.value = text,
                        !.translation_value =
                            [ValueInstance(v, values[v]) EXCEPT
                                !.value = text]]]
    /\ tpc' = [tpc EXCEPT ![t] = "vu_clean"]
    /\ tret' = [tret EXCEPT ![t] = NoTRet]
    /\ UNCHANGED <<keys, values, nextKey, nextVal, ttx>>
    /\ LanguagesUnchanged

ValueRowOf(h) == ValueRow(h.translation_key, h.language, h.value)

\* utils.py 150: full_clean()
vu_clean(t) ==
    /\ tpc[t] = "vu_clean"
    /\ LET h == tcall[t].translation_value
       IN  IF value_full_clean(KeysView(t), ValuesView(t), h.pk, ValueRowOf(h))
           THEN TGoto(t, ttx[t], "vu_save")
           ELSE TRaise(t, "ValidationError", <<>>)
    /\ UNCHANGED <<nextKey, nextVal, tcall>>
    /\ LanguagesUnchanged

\* utils.py 151: save(update_fields=["value", "updated_at"]), which
\* validates again and updates the value of the row
vu_save(t) ==
    /\ tpc[t] = "vu_save"
    /\ LET h == tcall[t].translation_value
       IN  IF ~value_full_clean(KeysView(t), ValuesView(t), h.pk,
                                ValueRowOf(h))
           THEN TRaise(t, "ValidationError", <<>>)
           ELSE IF h.pk \notin DOMAIN values
           THEN TRaise(t, "DatabaseError", <<>>)
           ELSE TCommit(t, NoKeys,
                        h.pk :> [values[h.pk] EXCEPT !.value = h.value],
                        [NoTRet EXCEPT !.result = "ok", !.updated = <<h>>])
    /\ UNCHANGED <<nextKey, nextVal, tcall>>
    /\ LanguagesUnchanged

\* ---------------------------------------------- translation_value_delete
\* utils.py 162: translation_value.delete() on the instance of the row v
translation_value_delete(t, v) ==
    /\ TIdle(t)
    /\ v \in DOMAIN values
    /\ \A o \in TReqs \ {t} : v \notin DOMAIN ttx[o].values
    /\ tcall' = [tcall EXCEPT ![t] =
                    [NoTCall EXCEPT !.kind = "value_delete",
                                    !.translation_value =
                                        ValueInstance(v, values[v])]]
    /\ values' = [j \in DOMAIN values \ {v} |-> values[j]]
    /\ tpc' = [tpc EXCEPT ![t] = "done"]
    /\ tret' = [tret EXCEPT ![t] = [NoTRet EXCEPT !.result = "ok"]]
    /\ UNCHANGED <<keys, nextKey, nextVal, ttx>>
    /\ LanguagesUnchanged

\* ------------------------------------------------------ specification
\* the caller is done with the outcome of a finished call
return_language_call(r) ==
    /\ pc[r] = "done"
    /\ pc' = [pc EXCEPT ![r] = "idle"]
    /\ call' = [call EXCEPT ![r] = NoCall]
    /\ ret' = [ret EXCEPT ![r] = NoRet]
    /\ UNCHANGED <<projects, pdata, now, gone, db, nextId, tx>>
    /\ TranslationsUnchanged

return_translation_call(t) ==
    /\ tpc[t] = "done"
    /\ tpc' = [tpc EXCEPT ![t] = "idle"]
    /\ tcall' = [tcall EXCEPT ![t] = NoTCall]
    /\ tret' = [tret EXCEPT ![t] = NoTRet]
    /\ UNCHANGED <<keys, values, nextKey, nextVal, ttx>>
    /\ LanguagesUnchanged

TStep(t) ==
    \/ kc_clean(t) \/ kc_save(t)
    \/ vc_validate(t) \/ vc_clean(t) \/ vc_save(t)
    \/ vb_validate(t) \/ vb_existing(t) \/ vb_create(t) \/ vb_update(t)
    \/ return_translation_call(t)

\* the translation calls and steps of the requests T, with the key texts K,
\* the value texts W for single values and U for lists of values
TRequests(T, P, K, W, U) ==
    \E t \in T :
        \/ \E p \in P, k \in K : call_key_create(t, p, k, "")
        \/ \E k \in 1..MaxKeyId, c \in Codes, v \in W :
               call_value_create(t, k, c, v)
        \/ \E k \in 1..MaxKeyId, d \in ValueLists(U) :
               call_value_bulk_update(t, k, d)
        \/ TStep(t)

\* the language calls that add a language to a project
LanguageRequests(r, P) ==
    \/ \E p \in P, c \in LanguageChoices, b \in BOOLEAN : call_add(r, p, c, b)
    \/ add_exists(r) \/ add_demote(r) \/ add_clean(r) \/ add_save(r)
    \/ return_language_call(r)

\* languages, keys and values of one project: a language request next to a
\* translation request
NextTr ==
    \/ \E p \in {"p1"} : project_create(p, SlugOf(p), NameOf(p), "")
    \/ \E p \in {"p1"} : project_delete(p)
    \/ LanguageRequests("r1", {"p1"})
    \/ TRequests({"t1"}, {"p1"}, {<<"A", ".", "b">>}, {"v1"}, {"v2"})

SpecTr == Init /\ [][NextTr]_vars

\* the key texts of two keys
TwoKeys == {<<"A", ".", "b">>, <<"b", "_", "1">>}

\* the values_data lists with codes from C and texts from W
ValueListsOf(C, W) ==
    UNION {[1..n -> [language : C, value : W]] : n \in 0..MaxItems}

\* one translation request at a time on the keys and values of a project whose
\* languages are added one by one
NextUps ==
    \/ \E p \in {"p1"} : project_create(p, SlugOf(p), NameOf(p), "")
    \/ \E c \in LanguageChoices : call_add("r1", "p1", c, FALSE)
    \/ add_exists("r1") \/ add_demote("r1") \/ add_clean("r1")
    \/ add_save("r1") \/ return_language_call("r1")
    \/ \E k \in TwoKeys, d \in ValueListsOf(LanguageChoices, {"v1"}) :
           call_key_create_with_values("t1", "p1", k, "", d)
    \/ \E k \in 1..MaxKeyId, d \in ValueListsOf(LanguageChoices, {"v2"}) :
           call_value_bulk_update("t1", k, d)
    \/ kc_clean("t1") \/ kw_save("t1")
    \/ vb_validate("t1") \/ vb_existing("t1") \/ vb_create("t1")
    \/ vb_update("t1")
    \/ return_translation_call("t1")

SpecUps == Init /\ [][NextUps]_vars

\* key texts: with capitals, of one segment, ending in a separator, ending
\* in a newline
KeyTexts ==
    {<<"A", ".", "b">>, <<"a", ".", "B">>, <<"B">>, <<"a", ".">>,
     <<"a", "_", "1", "\n">>}

\* the arguments of an update that are given
KeyFields == SUBSET {"key", "description"}

\* the keys of two projects: a request that creates and updates keys next to
\* a request that creates one key
NextKey ==
    \/ \E p \in ProjectIds : project_create(p, SlugOf(p), NameOf(p), "")
    \/ \E p \in ProjectIds, k \in KeyTexts :
           call_key_create("t1", p, k, "")
    \/ \E p \in ProjectIds, k \in KeyTexts,
          d \in {<<>>, <<[language |-> "en", value |-> "v2"]>>} :
           call_key_create_with_values("t1", p, k, "", d)
    \/ \E k \in 1..MaxKeyId, F \in KeyFields, x \in KeyTexts :
           call_key_update("t1", k, F, x, "d1")
    \/ call_key_create("t2", "p1", <<"a", ".", "b">>, "")
    \/ \E t \in TReqs :
           \/ kc_clean(t) \/ kc_save(t) \/ kw_save(t) \/ vb_validate(t)
           \/ ku_clean(t) \/ ku_save(t)
           \/ return_translation_call(t)

SpecKey == Init /\ [][NextKey]_vars

\* the values of one key: two concurrent translation requests
NextVal ==
    \/ \E p \in {"p1"} : project_create(p, SlugOf(p), NameOf(p), "")
    \/ \E c \in LanguageChoices : call_add("r1", "p1", c, FALSE)
    \/ add_exists("r1") \/ add_demote("r1") \/ add_clean("r1")
    \/ add_save("r1") \/ return_language_call("r1")
    \/ call_key_create("t1", "p1", <<"a", ".", "b">>, "")
    \/ kc_clean("t1") \/ kc_save("t1")
    \/ \E t \in TReqs :
           \/ \E k \in 1..MaxKeyId, c \in LanguageChoices :
                  call_value_create(t, k, c, "v1")
           \/ \E k \in 1..MaxKeyId,
                 d \in ValueListsOf(LanguageChoices, {"v1"}) :
                  call_value_bulk_update(t, k, d)
           \/ vc_validate(t) \/ vc_clean(t) \/ vc_save(t)
           \/ vb_validate(t) \/ vb_existing(t) \/ vb_create(t)
           \/ vb_update(t)
           \/ return_translation_call(t)

SpecVal == Init /\ [][NextVal]_vars

\* the values of one key while the languages of its project are added and
\* removed: a language request next to a translation request
NextOrph ==
    \/ \E p \in {"p1"} : project_create(p, SlugOf(p), NameOf(p), "")
    \/ \E c \in LanguageChoices : call_add("r1", "p1", c, FALSE)
    \/ add_exists("r1") \/ add_demote("r1") \/ add_clean("r1")
    \/ add_save("r1")
    \/ \E k \in 1..MaxId : call_remove("r1", k)
    \/ rm_check("r1") \/ rm_model_check("r1") \/ rm_delete("r1")
    \/ return_language_call("r1")
    \/ call_key_create("t1", "p1", <<"a", ".", "b">>, "")
    \/ kc_clean("t1") \/ kc_save("t1")
    \/ \E k \in 1..MaxKeyId, c \in LanguageChoices :
           call_value_create("t1", k, c, "v1")
    \/ \E k \in 1..MaxKeyId, d \in ValueListsOf(LanguageChoices, {"v1"}) :
           call_value_bulk_update("t1", k, d)
    \/ \E v \in 1..MaxValId, x \in {"v3", ""} :
           call_value_update("t1", v, x)
    \/ \E v \in 1..MaxValId : translation_value_delete("t1", v)
    \/ vc_validate("t1") \/ vc_clean("t1") \/ vc_save("t1")
    \/ vb_validate("t1") \/ vb_existing("t1") \/ vb_create("t1")
    \/ vb_update("t1")
    \/ vu_clean("t1") \/ vu_save("t1")
    \/ return_translation_call("t1")

SpecOrph == Init /\ [][NextOrph]_vars

\* two projects with their languages, keys and values, and the deletion of
\* keys and projects
NextDel ==
    \/ \E p \in ProjectIds : project_create(p, SlugOf(p), NameOf(p), "")
    \/ \E p \in ProjectIds : project_delete(p)
    \/ \E p \in ProjectIds : call_add("r1", p, "en", FALSE)
    \/ add_exists("r1") \/ add_demote("r1") \/ add_clean("r1")
    \/ add_save("r1") \/ return_language_call("r1")
    \/ \E p \in ProjectIds : call_key_create("t1", p, <<"a", ".", "b">>, "")
    \/ kc_clean("t1") \/ kc_save("t1")
    \/ \E k \in 1..MaxKeyId : call_value_create("t1", k, "en", "v1")
    \/ vc_validate("t1") \/ vc_clean("t1") \/ vc_save("t1")
    \/ \E k \in 1..MaxKeyId : translation_key_delete("t1", k)
    \/ return_translation_call("t1")

SpecDel == Init /\ [][NextDel]_vars

\* the arguments of project_update that are given
ProjectFields == SUBSET {"slug", "name", "description"}

\* updates of projects and keys while time passes
NextUpd ==
    \/ \E p \in ProjectIds : project_create(p, SlugOf(p), NameOf(p), "")
    \/ clock_tick
    \/ \E F \in ProjectFields :
           call_project_update("r1", "p1", F, <<"s", "2">>, "n3", "d1")
    \/ pu_clean("r1") \/ pu_save("r1") \/ return_language_call("r1")
    \/ call_key_create("t1", "p1", <<"a", ".", "b">>, "")
    \/ kc_clean("t1") \/ kc_save("t1")
    \/ \E k \in 1..MaxKeyId, F \in KeyFields :
           call_key_update("t1", k, F, <<"B", ".", "a">>, "d1")
    \/ ku_clean("t1") \/ ku_save("t1")
    \/ return_translation_call("t1")

SpecUpd == Init /\ [][NextUpd]_vars

\* ================================================================ claims
\* C1: after any sequence of successful project_language_add / _bulk_add /
\* _set_base / _remove calls, every project that has at least one
\* ProjectLanguage row has exactly one row with is_base_language = TRUE.
C1_ExactlyOneBase ==
    \A p \in projects :
        ProjectRows(db, p) # {} => Cardinality(BaseRows(db, p)) = 1

\* C2: under any interleaving of concurrent add, bulk add and set base
\* transactions on one project, no committed state has two rows of the
\* project with is_base_language = TRUE.
C2_AtMostOneBase ==
    \A p \in projects : Cardinality(BaseRows(db, p)) <= 1

\* C2 witness: two concurrent adds both saw the project without languages;
\* one committed its row as base and the other one failed.
C2_Witness ==
    /\ pc["r1"] = "done" /\ pc["r2"] = "done"
    /\ call["r1"].kind = "add" /\ call["r2"].kind = "add"
    /\ ~call["r1"].has_languages /\ ~call["r2"].has_languages
    /\ call["r1"].project = call["r2"].project
    /\ ret["r1"].result = "ok"
    /\ ret["r2"].result \in {"ValidationError", "IntegrityError"}
    /\ call["r1"].language # call["r2"].language
    /\ BaseRows(db, call["r1"].project) = {call["r1"].pk}

\* C3: project_language_remove fails with "cannot remove base language" and
\* deletes nothing whenever the target row is the base row in the store at
\* the time the operation runs, also when the row was promoted after the
\* caller obtained its instance.
C3_BaseRowRemoveFails ==
    [][\A r \in Reqs :
          LET h == call[r].project_language
          IN  (/\ pc[r] = "rm_check"
               /\ pc'[r] # "rm_check"
               /\ h.pk \in DOMAIN db
               /\ db[h.pk].is_base_language)
              => /\ pc'[r] = "done"
                 /\ ret'[r].result = "ProjectError: base language"
                 /\ db' = db]_vars

\* C4: a remove interleaved with a concurrent set base on the same project
\* leaves no committed state in which the project has a language row and no
\* base row.
C4_NeverWithoutBase ==
    \A p \in projects : ProjectRows(db, p) # {} => BaseRows(db, p) # {}

\* C5: project_language_add on a project that has no language row creates
\* the new row with is_base_language = TRUE, whatever flag the caller passed
\* (for a catalog code and an existing project, the call succeeds).
C5_FirstLanguageIsBase ==
    [][\A r \in Reqs :
          (/\ call[r].kind = "add"
           /\ pc[r] # "done" /\ pc'[r] = "done"
           /\ ProjectRows(db, call[r].project) = {}
           /\ call[r].language \in LanguageChoices
           /\ call[r].project \in projects)
          => /\ ret'[r].result = "ok"
             /\ call[r].pk \in DOMAIN db'
             /\ db'[call[r].pk] =
                    Row(call[r].project, call[r].language, TRUE)
             /\ ret'[r].rows = <<Instance(call[r].pk, db'[call[r].pk])>>]_vars

\* C5 witness: an add that did not ask for base has returned, and its row is
\* the only row of the project and is the base.
C5_Witness ==
    \E r \in Reqs :
        /\ pc[r] = "done" /\ call[r].kind = "add"
        /\ ~call[r].requested_base
        /\ ret[r].result = "ok"
        /\ ProjectRows(db, call[r].project) = {call[r].pk}
        /\ db[call[r].pk].is_base_language

\* C6 as stated: project_language_remove fails with "cannot remove the last
\* language" and deletes nothing whenever no other language row exists for
\* the target's project, whether or not the target is flagged base.
C6_LastLanguageError ==
    [][\A r \in Reqs :
          LET h == call[r].project_language
          IN  (/\ pc[r] = "rm_check" /\ pc'[r] # "rm_check"
               /\ ProjectRows(db, h.project) \ {h.pk} = {})
              => /\ pc'[r] = "done"
                 /\ ret'[r].result = "ProjectError: last language"
                 /\ db' = db]_vars

\* C6 as amended: whenever no other language row exists for the target's
\* project, project_language_remove fails with a ProjectError and deletes
\* nothing; the error is "cannot delete the last language" when the instance
\* is not flagged base and "cannot delete the base language" when it is.
C6_SoleLanguageRemoveFails ==
    [][\A r \in Reqs :
          LET h == call[r].project_language
          IN  (/\ pc[r] = "rm_check" /\ pc'[r] # "rm_check"
               /\ ProjectRows(db, h.project) \ {h.pk} = {})
              => /\ pc'[r] = "done"
                 /\ ret'[r].result =
                        IF h.is_base_language
                        THEN "ProjectError: base language"
                        ELSE "ProjectError: last language"
                 /\ db' = db]_vars

\* C6 witness: a remove of the only row of a project, through an instance
\* that is not flagged base, has failed with the last-language error and the
\* row is still there.
C6_Witness ==
    \E r \in Reqs :
        LET h == call[r].project_language
        IN  /\ pc[r] = "done" /\ call[r].kind = "remove"
            /\ ~h.is_base_language
            /\ ret[r].result = "ProjectError: last language"
            /\ h.project \in projects
            /\ ProjectRows(db, h.project) = {h.pk}

\* C7: while a project exists, once it has a language row it never again has
\* none, under any interleaving of adds, bulk adds, set base and removes.
C7_NeverBackToNoLanguages ==
    [][\A p \in projects \cap projects' :
          ProjectRows(db, p) # {} => ProjectRows(db', p) # {}]_vars

\* C7 witness: two concurrent removes of the two rows of a project have both
\* returned; one deleted its row, the other was stopped, and one row is left.
C7_Witness ==
    \E r \in Reqs, o \in Reqs :
        LET h == call[r].project_language
            g == call[o].project_language
        IN  /\ r # o
            /\ pc[r] = "done" /\ pc[o] = "done"
            /\ call[r].kind = "remove" /\ call[o].kind = "remove"
            /\ h.project = g.project /\ h.pk # g.pk
            /\ ~h.is_base_language /\ ~g.is_base_language
            /\ ret[r].result = "ok"
            /\ ret[o].result \in {"ProjectError: last language",
                                  "ValidationError", "OperationalError"}
            /\ ProjectRows(db, h.project) = {g.pk}

\* C8: calling project_language_set_base a second time in a row on the same
\* row leaves the store as the first call left it.
C8_SetBaseIdempotent ==
    [][\A r \in Reqs :
          (/\ call[r].kind = "set_base" /\ call[r].again
           /\ pc[r] # "done" /\ pc'[r] = "done")
          => db' = db]_vars

\* C8 witness: the second call has returned; the row is the base of a
\* project that has another row.
C8_Witness ==
    \E r \in Reqs :
        LET h == call[r].project_language
        IN  /\ pc[r] = "done" /\ call[r].kind = "set_base" /\ call[r].again
            /\ ret[r].result = "ok"
            /\ h.pk \in DOMAIN db /\ db[h.pk].is_base_language
            /\ ProjectRows(db, h.project) # {h.pk}

C10_NoVisibleIntermediate ==
    [][\A r \in Reqs :
          LET h == call[r].project_language
          IN  /\ (pc[r] = "sb_demote" /\ pc'[r] = "sb_promote") => db' = db
              /\ (pc[r] = "sb_promote" /\ pc'[r] = "done")
                 => \/ db' = db
                    \/ db' = [k \in DOMAIN db |->
                                IF db[k].project = h.project
                                THEN [db[k] EXCEPT
                                        !.is_base_language = (k = h.pk)]
                                ELSE db[k]]]_vars

\* C10 witness: a set base has demoted the base and not yet promoted its
\* row, another request is running, and the committed rows still show the
\* old base.
C10_Witness ==
    \E r \in Reqs, o \in Reqs :
        /\ r # o
        /\ pc[r] = "sb_promote"
        /\ InFlight(o)
        /\ BaseRows(View(r), call[r].project_language.project) = {}
        /\ BaseRows(db, call[r].project_language.project) # {}
        /\ BaseRows(View(o), call[r].project_language.project) # {}

\* C11: a row that is not the base in the store, in a project that has
\* another row, can be removed: project_language_remove called on it passes
\* the base check and the last-language check (so after set base of fr in a
\* project with en as base and fr, the remove of en goes through).
C11_DemotedRowRemovable ==
    [][\A r \in Reqs :
          LET h == call[r].project_language
          IN  (/\ pc[r] = "rm_check" /\ pc'[r] # "rm_check"
               /\ h.pk \in DOMAIN db
               /\ ~db[h.pk].is_base_language
               /\ ProjectRows(db, h.project) \ {h.pk} # {})
              => pc'[r] = "rm_model_check"]_vars

\* C12: after a successful project_language_add on a project that already
\* has languages, the new row is base exactly when base was requested; when
\* it was requested the previous base row is demoted, and when it was not,
\* every existing row is unchanged.
C12_AddToExisting ==
    [][\A r \in Reqs :
          LET c == call[r]
          IN  (/\ c.kind = "add"
               /\ pc[r] # "done" /\ pc'[r] = "done"
               /\ ret'[r].result = "ok"
               /\ ProjectRows(db, c.project) # {})
              => /\ DOMAIN db' = DOMAIN db \cup {c.pk}
                 /\ c.pk \notin DOMAIN db
                 /\ \A k \in DOMAIN db' :
                       db'[k] =
                         IF k = c.pk
                         THEN Row(c.project, c.language, c.requested_base)
                         ELSE IF c.requested_base /\ db[k].project = c.project
                         THEN [db[k] EXCEPT !.is_base_language = FALSE]
                         ELSE db[k]]_vars

\* C12 witness: an add that asked for base has succeeded on a project that
\* had a base row; the new row is the only base and the old rows are there.
C12_Witness ==
    \E r \in Reqs :
        LET c == call[r]
        IN  /\ pc[r] = "done" /\ c.kind = "add"
            /\ c.has_languages /\ c.requested_base
            /\ ret[r].result = "ok"
            /\ BaseRows(db, c.project) = {c.pk}
            /\ ProjectRows(db, c.project) # {c.pk}

\* C13: project_language_add fails with ValidationError when the project
\* already has the code or the code is not in LanguageChoices, and the store
\* is unchanged: no row is inserted and a demotion made for a requested base
\* is rolled back.
C13_AddRejected ==
    [][\A r \in Reqs :
          LET c == call[r]
          IN  (/\ c.kind = "add"
               /\ pc[r] # "done" /\ pc'[r] = "done"
               /\ c.project \in projects
               /\ \/ c.language \notin LanguageChoices
                  \/ \E k \in ProjectRows(db, c.project) :
                        db[k].language = c.language)
              => /\ ret'[r].result = "ValidationError"
                 /\ db' = db]_vars

\* C13 witness: an add that asked for base, for a code the project already
\* has, has failed with ValidationError; the base row is still base and the
\* new row is not in the store.
C13_Witness ==
    \E r \in Reqs :
        LET c == call[r]
        IN  /\ pc[r] = "done" /\ c.kind = "add"
            /\ c.requested_base
            /\ ret[r].result = "ValidationError"
            /\ c.pk \notin DOMAIN db
            /\ \E k \in ProjectRows(db, c.project) :
                  db[k].language = c.language
            /\ \E k \in BaseRows(db, c.project) :
                  db[k].language # c.language

\* C14: in every reachable state, under any interleaving of adds and bulk
\* adds, no project has two language rows with the same language code.
C14_UniqueProjectLanguage ==
    \A j \in DOMAIN db, k \in DOMAIN db :
        j # k => ~(db[j].project = db[k].project
                   /\ db[j].language = db[k].language)

\* C14 witness: two adds of the same code to a project with languages ran
\* together; one succeeded, the other passed full_clean() and was stopped
\* at the insert, and the project has the code once.
C14_Witness ==
    \E r \in Reqs, o \in Reqs :
        /\ r # o
        /\ pc[r] = "done" /\ pc[o] = "done"
        /\ call[r].kind = "add" /\ call[o].kind = "add"
        /\ call[r].project = call[o].project
        /\ call[r].language = call[o].language
        /\ call[r].has_languages /\ call[o].has_languages
        /\ ret[r].result = "ok"
        /\ ret[o].result = "IntegrityError"
        /\ {k \in ProjectRows(db, call[r].project) :
                db[k].language = call[r].language} = {call[r].pk}

\* C15: project_language_bulk_add with more than one entry asking for base
\* fails with ProjectError and leaves the store unchanged: no row is
\* inserted and an existing base row keeps its flag.
C15_BulkTwoBasesRejected ==
    [][\A r \in Reqs :
          LET l == call[r].languages_data
          IN  (/\ call[r].kind = "bulk_add"
               /\ pc[r] # "done" /\ pc'[r] = "done"
               /\ Cardinality({i \in 1..Len(l) : l[i].is_base_language}) > 1)
              => /\ ret'[r].result = "ProjectError: one base"
                 /\ db' = db]_vars

\* C15 witness: a bulk add of two entries that both ask for base, for codes
\* the project does not have, has failed with ProjectError on a project that
\* has a base row.
C15_Witness ==
    \E r \in Reqs :
        LET l == call[r].languages_data
        IN  /\ pc[r] = "done" /\ call[r].kind = "bulk_add"
            /\ Len(l) = 2
            /\ l[1].is_base_language /\ l[2].is_base_language
            /\ l[1].language # l[2].language
            /\ ret[r].result = "ProjectError: one base"
            /\ BaseRows(db, call[r].project) # {}
            /\ \A k \in ProjectRows(db, call[r].project) :
                  db[k].language \notin {l[1].language, l[2].language}

\* C16: project_language_bulk_add is all-or-nothing: a call that does not
\* succeed leaves the store unchanged, and a call with an entry that is
\* unknown to LanguageChoices, already attached to the project or twice in
\* the list does not succeed; none of its rows exist afterwards and the
\* previous base row is still base.
C16_BulkAllOrNothing ==
    [][\A r \in Reqs :
          LET c == call[r]
              l == c.languages_data
              bad(i) == \/ l[i].language \notin LanguageChoices
                        \/ \E k \in ProjectRows(db, c.project) :
                              db[k].language = l[i].language
                        \/ \E j \in 1..Len(l) :
                              j # i /\ l[j].language = l[i].language
          IN  (c.kind = "bulk_add" /\ pc[r] # "done" /\ pc'[r] = "done")
              => /\ (\E i \in 1..Len(l) : bad(i)) => ret'[r].result # "ok"
                 /\ ret'[r].result # "ok" => db' = db]_vars

\* C16 witness: a bulk add whose first entry asked for base and was
\* inserted after the demotion has failed on its second entry; none of its
\* rows is in the store and the project still has its base row.
C16_Witness ==
    \E r \in Reqs :
        LET c == call[r]
            l == c.languages_data
        IN  /\ pc[r] = "done" /\ c.kind = "bulk_add"
            /\ Len(l) = 2 /\ c.idx = 2
            /\ l[1].is_base_language /\ ~l[2].is_base_language
            /\ c.has_languages
            /\ ret[r].result = "ValidationError"
            /\ c.pk \notin DOMAIN db /\ (c.pk + 1) \notin DOMAIN db
            /\ BaseRows(db, c.project) # {}

\* C17: project_language_bulk_add on a project with no language rows, with
\* a non-empty list of distinct catalog codes none of which asks for base,
\* succeeds; the first entry becomes the base and every other entry is
\* stored as non-base.
C17_BulkFirstForcedBase ==
    [][\A r \in Reqs :
          LET c == call[r]
              l == c.languages_data
          IN  (/\ c.kind = "bulk_add"
               /\ pc[r] # "done" /\ pc'[r] = "done"
               /\ c.project \in projects
               /\ ProjectRows(db, c.project) = {}
               /\ l # <<>>
               /\ ~c.requested_base
               /\ \A i \in 1..Len(l) : l[i].language \in LanguageChoices
               /\ \A i, j \in 1..Len(l) :
                     i # j => l[i].language # l[j].language)
              => /\ ret'[r].result = "ok"
                 /\ ProjectRows(db', c.project) =
                        {c.pk + i - 1 : i \in 1..Len(l)}
                 /\ \A i \in 1..Len(l) :
                       db'[c.pk + i - 1] =
                           Row(c.project, l[i].language, i = 1)
                 /\ \A k \in DOMAIN db : db'[k] = db[k]]_vars

\* C17 witness: a bulk add of two entries, neither asking for base, has
\* succeeded on a project that had no rows; the first is the base, the
\* second is not.
C17_Witness ==
    \E r \in Reqs :
        LET c == call[r]
        IN  /\ pc[r] = "done" /\ c.kind = "bulk_add"
            /\ ~c.requested_base
            /\ Len(c.languages_data) = 2
            /\ ret[r].result = "ok"
            /\ ProjectRows(db, c.project) = {c.pk, c.pk + 1}
            /\ db[c.pk].is_base_language
            /\ ~db[c.pk + 1].is_base_language

\* C18: project_language_bulk_add with exactly one entry asking for base
\* and all codes in the catalog, distinct and not yet attached to the project
\* succeeds, wherever the base entry is in the list and whether or not the
\* project has a base; afterwards every entry is attached and the entry that
\* asked is the only base row of the project.
C18_BulkOneBaseAnyPosition ==
    [][\A r \in Reqs :
          LET c == call[r]
              l == c.languages_data
          IN  (/\ c.kind = "bulk_add"
               /\ pc[r] # "done" /\ pc'[r] = "done"
               /\ c.project \in projects
               /\ c.requested_base
               /\ Cardinality({i \in 1..Len(l) : l[i].is_base_language}) = 1
               /\ \A i \in 1..Len(l) :
                     /\ l[i].language \in LanguageChoices
                     /\ \A k \in ProjectRows(db, c.project) :
                           db[k].language # l[i].language
               /\ \A i, j \in 1..Len(l) :
                     i # j => l[i].language # l[j].language)
              => /\ ret'[r].result = "ok"
                 /\ \A i \in 1..Len(l) :
                       /\ (c.pk + i - 1) \in DOMAIN db'
                       /\ db'[c.pk + i - 1] =
                              Row(c.project, l[i].language,
                                  l[i].is_base_language)
                 /\ Cardinality(BaseRows(db', c.project)) = 1]_vars

\* C19: translation_value_create for a language that is not among the
\* ProjectLanguage codes of the project of an existing key fails with
\* TranslationError "language not configured" and creates no TranslationValue.
C19_CreateValueUnconfigured ==
    [][\A t \in TReqs :
          LET h == tcall[t].translation_key
          IN  (/\ tpc[t] = "vc_validate" /\ tpc'[t] # "vc_validate"
               /\ h.pk \in DOMAIN keys
               /\ \A k \in ProjectRows(db, h.project) :
                     db[k].language # tcall[t].language)
              => /\ tpc'[t] = "done"
                 /\ tret'[t].result =
                        "TranslationError: language not configured"
                 /\ values' = values]_vars

\* C19 witness: a create for a catalog code that the project, which has
\* another language, does not have has failed with TranslationError; the key
\* has no value for the code.
C19_Witness ==
    \E t \in TReqs :
        LET h == tcall[t].translation_key
        IN  /\ tpc[t] = "done" /\ tcall[t].kind = "value_create"
            /\ tret[t].result = "TranslationError: language not configured"
            /\ h.pk \in DOMAIN keys
            /\ tcall[t].language \in LanguageChoices
            /\ ProjectRows(db, h.project) # {}
            /\ \A k \in ProjectRows(db, h.project) :
                  db[k].language # tcall[t].language
            /\ \A v \in DOMAIN values :
                  ~(values[v].translation_key = h.pk
                    /\ values[v].language = tcall[t].language)

\* C20: translation_value_bulk_update with at least one item whose language
\* is not configured for the project of the key fails with TranslationError,
\* its detail lists exactly the invalid codes, and nothing is written: no
\* row is created and no text is changed, also for the valid items.
C20_BulkUpsertInvalid ==
    [][\A t \in TReqs :
          LET h == tcall[t].translation_key
              d == tcall[t].values_data
              bad == {d[i].language : i \in
                        {j \in 1..Len(d) :
                            \A k \in ProjectRows(db, h.project) :
                                db[k].language # d[j].language}}
          IN  (/\ tpc[t] = "vb_validate" /\ tpc'[t] # "vb_validate"
               /\ h.pk \in DOMAIN keys
               /\ bad # {})
              => /\ tpc'[t] = "done"
                 /\ tret'[t].result = "TranslationError: invalid languages"
                 /\ {tret'[t].extra[i] : i \in 1..Len(tret'[t].extra)} = bad
                 /\ Len(tret'[t].extra) = Cardinality(bad)
                 /\ values' = values
                 /\ keys' = keys]_vars

\* C20 witness: a bulk update with a configured and an unconfigured language
\* has failed with TranslationError; the value the key has for the
\* configured language still has its old text.
C20_Witness ==
    \E t \in TReqs :
        LET h == tcall[t].translation_key
            d == tcall[t].values_data
            codes == ProjectLanguageCodes(h.project)
        IN  /\ tpc[t] = "done" /\ tcall[t].kind = "value_bulk_update"
            /\ tret[t].result = "TranslationError: invalid languages"
            /\ Len(d) = 2
            /\ \E i, j \in 1..2 :
                  /\ d[i].language \in codes
                  /\ d[j].language \notin codes
                  /\ tret[t].extra = <<d[j].language>>
                  /\ \E v \in DOMAIN values :
                        /\ values[v].translation_key = h.pk
                        /\ values[v].language = d[i].language
                        /\ values[v].value # d[i].value

\* C21: a successful translation_value_bulk_update on a key sets the text of
\* the existing row of every requested language that has one, inserts a row
\* for every requested language that has none, returns the two groups as
\* 'updated' and 'created' (disjoint, together the requested languages), and
\* leaves the key's rows of other languages and the rows of other keys as
\* they were.
C21_BulkUpsertFrame ==
    [][\A t \in TReqs :
          (/\ tpc[t] = "vb_update"
           /\ tcall[t].kind = "value_bulk_update"
           /\ tpc'[t] = "done"
           /\ tret'[t].result = "ok")
          => LET h == tcall[t].translation_key
                 d == tcall[t].values_data
                 L == languages(d)
                 old(c) == {k \in DOMAIN values :
                               /\ values[k].translation_key = h.pk
                               /\ values[k].language = c}
                 had == {c \in L : old(c) # {}}
                 created == tret'[t].created
                 updated == tret'[t].updated
                 langs(l) == {l[i].language : i \in 1..Len(l)}
                 pks(l) == {l[i].pk : i \in 1..Len(l)}
             IN  /\ \A c \in had : \A k \in old(c) :
                       /\ k \in DOMAIN values'
                       /\ values'[k] =
                              [values[k] EXCEPT !.value = LastValue(d, c)]
                 /\ \A c \in L \ had :
                       \E k \in DOMAIN values' \ DOMAIN values :
                           /\ values'[k] = ValueRow(h.pk, c, LastValue(d, c))
                           /\ \A j \in DOMAIN values' \ DOMAIN values :
                                 values'[j].language = c => j = k
                 /\ langs(updated) = had
                 /\ langs(created) = L \ had
                 /\ pks(updated) = UNION {old(c) : c \in had}
                 /\ pks(created) = DOMAIN values' \ DOMAIN values
                 /\ \A k \in DOMAIN values :
                       (values[k].translation_key # h.pk
                            \/ values[k].language \notin L)
                       => k \in DOMAIN values' /\ values'[k] = values[k]
                 /\ \A k \in DOMAIN values' \ DOMAIN values :
                       /\ values'[k].translation_key = h.pk
                       /\ values'[k].language \in L
                 /\ keys' = keys]_vars

\* a bulk update has returned after it changed the text of one row and
\* created another, next to a row of another key
C21_Witness ==
    \E t \in TReqs :
        /\ tpc[t] = "done"
        /\ tcall[t].kind = "value_bulk_update"
        /\ tret[t].result = "ok"
        /\ tret[t].created # <<>>
        /\ \E i \in 1..Len(tret[t].updated) :
              LET u == tret[t].updated[i]
              IN  /\ u.pk \in DOMAIN values
                  /\ values[u.pk].value = "v2"
        /\ \E k \in DOMAIN values :
              values[k].translation_key # tcall[t].translation_key.pk

\* C22: translation_key_create_with_values is atomic.  While the call runs,
\* the key it has created is not among the committed rows; when the call
\* fails (a language of values_data is not configured for the project, or
\* any other error) the key does not exist afterwards and no value was
\* written; when it succeeds the key and a value for every entry exist.
C22_CreateWithValuesAtomic ==
    [][\A t \in TReqs :
          (tcall[t].kind = "key_create_with_values" /\ ~TIdle(t))
          => LET h == tcall'[t].translation_key
                 d == tcall[t].values_data
             IN  /\ (tpc'[t] # "done" \/ tret'[t].result # "ok")
                    => /\ keys' = keys
                       /\ values' = values
                       /\ h.pk \notin DOMAIN keys'
                       /\ \A v \in DOMAIN values' :
                             values'[v].translation_key # h.pk
                 /\ (tpc'[t] = "done" /\ tret'[t].result = "ok")
                    => /\ h.pk \in DOMAIN keys' \ DOMAIN keys
                       /\ keys'[h.pk].project = tcall[t].project
                       /\ keys'[h.pk].key = lower(tcall[t].key)
                       /\ \A i \in 1..Len(d) :
                             \E v \in DOMAIN values' \ DOMAIN values :
                                 values'[v] = ValueRow(h.pk, d[i].language,
                                                       d[i].value)
                       /\ \A v \in DOMAIN values :
                             v \in DOMAIN values' /\ values'[v] = values[v]]_vars

\* the call has failed on a language the project does not have, after it
\* had created its key
C22_Witness ==
    \E t \in TReqs :
        /\ tpc[t] = "done"
        /\ tcall[t].kind = "key_create_with_values"
        /\ tret[t].result = "TranslationError: invalid languages"
        /\ tcall[t].translation_key.pk # 0
        /\ tcall[t].translation_key.pk \notin DOMAIN keys
        /\ ProjectLanguageCodes(tcall[t].project) # {}

\* C23: translation_key_create (also inside
\* translation_key_create_with_values) and translation_key_update store and
\* return the key text lower-cased: "A" becomes "a", "B" becomes "b", every
\* other character stays; and a stored key is its own lower-case form.
C23_KeyStoredLowerCased ==
    [][\A t \in TReqs :
          LET IsLowerOf(r, s) ==
                  /\ Len(r) = Len(s)
                  /\ \A i \in 1..Len(s) :
                        r[i] = (IF s[i] = "A" THEN "a"
                                ELSE IF s[i] = "B" THEN "b" ELSE s[i])
              ok == tpc'[t] = "done" /\ tret'[t].result = "ok"
          IN  /\ (tpc[t] = "kc_save" /\ ok)
                 => \E k \in DOMAIN keys' \ DOMAIN keys :
                        /\ IsLowerOf(keys'[k].key, tcall[t].key)
                        /\ tret'[t].key[1].pk = k
                        /\ tret'[t].key[1].key = keys'[k].key
              /\ (tpc[t] = "ku_save" /\ ok
                      /\ "key" \in tcall[t].update_fields)
                 => LET k == tcall[t].translation_key.pk
                    IN  /\ IsLowerOf(keys'[k].key, tcall[t].key)
                        /\ tret'[t].key[1].pk = k
                        /\ tret'[t].key[1].key = keys'[k].key
              /\ \A k \in DOMAIN keys' :
                    IsLowerOf(keys'[k].key, keys'[k].key)]_vars

\* a key given with a capital has been created, and another has been
\* renamed with a text that has a capital
C23_Witness ==
    /\ tpc["t1"] = "done"
    /\ tcall["t1"].kind = "key_update"
    /\ tret["t1"].result = "ok"
    /\ tcall["t1"].key = <<"a", ".", "B">>
    /\ tret["t1"].key[1].key = <<"a", ".", "b">>
    /\ \E k \in DOMAIN keys : keys[k].key = <<"b">>

\* C24: a key is accepted by translation_key_create and
\* translation_key_update only if its lower-cased text is made of at least
\* two non-empty segments of [a-z0-9] separated by '.' or '_': every stored
\* key has that form, and a call with a key of one segment ends in
\* ValidationError.
C24_KeyHasTwoSegments ==
    /\ \A k \in DOMAIN keys :
          LET s == keys[k].key
          IN  /\ \A i \in 1..Len(s) : s[i] \in LowerChars \cup Separators
              /\ \E i \in 1..Len(s) : s[i] \in Separators
              /\ \A i \in 1..Len(s) :
                    s[i] \in Separators
                    => /\ 1 < i /\ i < Len(s)
                       /\ s[i - 1] \in LowerChars /\ s[i + 1] \in LowerChars
    /\ \A t \in TReqs :
          (/\ tpc[t] = "done"
           /\ tcall[t].kind \in {"key_create", "key_update",
                                 "key_create_with_values"}
           /\ tcall[t].key # <<>>
           /\ \A i \in 1..Len(tcall[t].key) :
                 tcall[t].key[i] \notin Separators)
          => tret[t].result = "ValidationError"

\* C25: no project ever has two TranslationKey rows with the same stored key
\* text; and a translation_key_create (also the one inside
\* translation_key_create_with_values) or a translation_key_update whose
\* lower-cased key is the key of another row of the project fails its
\* full_clean() with ValidationError and writes nothing.
C25_UniqueKeyPerProject ==
    [][/\ \A j, k \in DOMAIN keys' :
             (keys'[j].project = keys'[k].project
                  /\ keys'[j].key = keys'[k].key) => j = k
       /\ \A t \in TReqs :
             LET taken(p, s, self) ==
                     \E k \in DOMAIN keys \ {self} :
                         keys[k].project = p /\ keys[k].key = lower(s)
                 h == tcall[t].translation_key
                 fails == /\ tpc'[t] = "done"
                          /\ tret'[t].result = "ValidationError"
                          /\ keys' = keys /\ values' = values
             IN  /\ (tpc[t] = "kc_clean" /\ tpc'[t] # "kc_clean"
                         /\ taken(tcall[t].project, tcall[t].key, 0))
                    => fails
                 /\ (tpc[t] = "ku_clean" /\ tpc'[t] # "ku_clean"
                         /\ "key" \in tcall[t].update_fields
                         /\ taken(h.project, tcall[t].key, h.pk))
                    => fails]_vars

\* a create has failed on a key that differs from an existing key of the
\* project only in the case of a letter
C25_Witness ==
    \E t \in TReqs :
        /\ tpc[t] = "done"
        /\ tcall[t].kind \in {"key_create", "key_create_with_values"}
        /\ tret[t].result = "ValidationError"
        /\ \E k \in DOMAIN keys :
              /\ keys[k].project = tcall[t].project
              /\ keys[k].key = lower(tcall[t].key)
              /\ keys[k].key # tcall[t].key
        /\ \E j, k \in DOMAIN keys :
              keys[j].key = keys[k].key /\ keys[j].project # keys[k].project

\* C26: whatever translation_value_create and translation_value_bulk_update
\* calls run, one after another or interleaved, a translation key never has
\* two TranslationValue rows of the same language.
C26_OneValuePerLanguage ==
    \A j, k \in DOMAIN values :
        (values[j].translation_key = values[k].translation_key
             /\ values[j].language = values[k].language) => j = k

\* two concurrent bulk updates of one key both found no row of a language
\* and both set out to create it: one has inserted it, the other has failed
C26_Witness ==
    /\ tpc["t1"] = "done" /\ tpc["t2"] = "done"
    /\ tcall["t1"].kind = "value_bulk_update"
    /\ tcall["t2"].kind = "value_bulk_update"
    /\ tcall["t1"].translation_key.pk = tcall["t2"].translation_key.pk
    /\ tret["t1"].result = "ok"
    /\ tret["t2"].result = "IntegrityError"
    /\ \E i \in 1..Len(tcall["t1"].to_create),
          j \in 1..Len(tcall["t2"].to_create) :
           /\ tcall["t1"].to_create[i].language
                  = tcall["t2"].to_create[j].language
           /\ tcall["t1"].to_create[i].pk \in DOMAIN values

\* C27: when a translation_value_create or a translation_value_bulk_update
\* commits, the language of every row it has written is the language of a
\* ProjectLanguage row of the key's project, also when a
\* project_language_remove for that language runs between the membership
\* check and the write.
C27_WrittenLanguageConfigured ==
    [][\A t \in TReqs :
          (/\ tpc[t] \in {"vc_save", "vb_update"}
           /\ tcall[t].kind \in {"value_create", "value_bulk_update"}
           /\ tpc'[t] = "done"
           /\ tret'[t].result = "ok")
          => LET h == tcall[t].translation_key
                 written(l) == {l[i].language : i \in 1..Len(l)}
             IN  \A c \in written(tret'[t].created)
                             \cup written(tret'[t].updated) :
                     \E k \in DOMAIN db' :
                         /\ db'[k].project = h.project
                         /\ db'[k].language = c]_vars

\* C28: project_language_remove leaves every TranslationValue row as it is,
\* the rows of the removed language too; and translation_value_update (with
\* a text that is not blank) and translation_value_delete on an existing row
\* succeed whether or not the row's language is still configured for the
\* project.
C28_OrphanedValuesRetained ==
    [][/\ \A r \in Reqs :
             (call[r].kind = "remove" /\ pc'[r] # pc[r])
             => values' = values /\ keys' = keys
       /\ \A t \in TReqs :
             LET h == tcall[t].translation_value
                 live == /\ h.pk \in DOMAIN values
                         /\ h.translation_key \in DOMAIN keys
                         /\ h.value # ""
             IN  /\ (tpc[t] = "vu_clean" /\ tpc'[t] # "vu_clean" /\ live)
                    => tpc'[t] = "vu_save" /\ values' = values
                 /\ (tpc[t] = "vu_save" /\ tpc'[t] # "vu_save" /\ live)
                    => /\ tret'[t].result = "ok"
                       /\ values' = [values EXCEPT ![h.pk].value = h.value]
                 /\ (tcall'[t].kind = "value_delete" /\ tpc'[t] = "done"
                         /\ tcall'[t] # tcall[t])
                    => LET v == tcall'[t].translation_value.pk
                       IN  /\ tret'[t].result = "ok"
                           /\ v \in DOMAIN values
                           /\ values' = [j \in DOMAIN values \ {v} |->
                                            values[j]]]_vars

\* the text of a value whose language has been removed from the project has
\* been replaced
C28_Witness ==
    \E t \in TReqs :
        LET h == tcall[t].translation_value
        IN  /\ tpc[t] = "done"
            /\ tcall[t].kind = "value_update"
            /\ tret[t].result = "ok"
            /\ h.pk \in DOMAIN values
            /\ values[h.pk].value = "v3"
            /\ h.translation_key \in DOMAIN keys
            /\ ProjectLanguageCodes(keys[h.translation_key].project) # {}
            /\ h.language
                   \notin ProjectLanguageCodes(keys[h.translation_key].project)

\* C29: deletion cascades and leaves no dangling row.  After project_delete
\* no ProjectLanguage, TranslationKey or TranslationValue of the project
\* exists, after translation_key_delete no TranslationValue of the key
\* exists, and the rows of the other projects and keys are as they were;
\* project_delete is not held back by the project's base or last language.
C29_DeleteCascades ==
    [][/\ \A p \in projects \ projects' :
             LET ownKeys == {k \in DOMAIN keys : keys[k].project = p}
             IN  /\ \A k \in DOMAIN db' : db'[k].project # p
                 /\ \A k \in DOMAIN keys' : keys'[k].project # p
                 /\ \A v \in DOMAIN values' :
                       values'[v].translation_key \notin ownKeys
                 /\ \A k \in DOMAIN db :
                       db[k].project # p
                       => k \in DOMAIN db' /\ db'[k] = db[k]
                 /\ \A k \in DOMAIN keys \ ownKeys :
                       k \in DOMAIN keys' /\ keys'[k] = keys[k]
                 /\ \A v \in DOMAIN values :
                       values[v].translation_key \notin ownKeys
                       => v \in DOMAIN values' /\ values'[v] = values[v]
                 /\ pdata' = [q \in DOMAIN pdata \ {p} |-> pdata[q]]
       /\ \A t \in TReqs :
             (tcall'[t].kind = "key_delete" /\ tpc'[t] = "done"
                  /\ tcall'[t] # tcall[t])
             => LET k == tcall'[t].translation_key.pk
                IN  /\ tret'[t].result = "ok"
                    /\ keys' = [j \in DOMAIN keys \ {k} |-> keys[j]]
                    /\ \A v \in DOMAIN values' :
                          values'[v].translation_key # k
                    /\ \A v \in DOMAIN values :
                          values[v].translation_key # k
                          => v \in DOMAIN values' /\ values'[v] = values[v]
                    /\ db' = db /\ projects' = projects
       /\ \A v \in DOMAIN values' :
             values'[v].translation_key \in DOMAIN keys'
       /\ \A k \in DOMAIN keys' : keys'[k].project \in projects'
       /\ \A k \in DOMAIN db' : db'[k].project \in projects']_vars

\* project p1 has been deleted with its only language, which was its base,
\* and with a key and a value, while p2 keeps its language, key and value
C29_Witness ==
    /\ gone = {"p1"}
    /\ projects = {"p2"}
    /\ nextId = 3 /\ Cardinality(DOMAIN db) = 1
    /\ nextKey = 3 /\ Cardinality(DOMAIN keys) = 1
    /\ nextVal = 3 /\ Cardinality(DOMAIN values) = 1
    /\ tpc["t1"] = "done" /\ tcall["t1"].kind = "value_create"
    /\ tret["t1"].result = "ok"
    /\ tret["t1"].created[1].pk \notin DOMAIN values

\* C30: project_update and translation_key_update are partial updates.  A
\* successful call sets the fields given and the modification time and
\* leaves every other field of the row, and every other row, as it was; a
\* call with no field given returns without a write (the row keeps its
\* modification time) and without a validation error.
C30_PartialUpdate ==
    [][/\ \A r \in Reqs :
             (call[r].kind = "project_update" /\ pc'[r] # pc[r])
             => LET h == call[r].instance
                    F == call[r].update_fields
                    p == h.pk
                    Was(f) == IF f \in F THEN h[f] ELSE pdata[p][f]
                IN  /\ (pc[r] = "pu_clean" /\ F = {})
                       => /\ pc'[r] = "done"
                          /\ ret'[r].result = "ok"
                          /\ pdata' = pdata
                    /\ (pc[r] = "pu_clean" /\ F # {}) => pdata' = pdata
                    /\ (pc[r] = "pu_save" /\ ret'[r].result # "ok")
                       => pdata' = pdata
                    /\ (pc[r] = "pu_save" /\ ret'[r].result = "ok")
                       => /\ F # {}
                          /\ pdata' =
                                 [pdata EXCEPT ![p] =
                                     ProjectRow(Was("slug"), Was("name"),
                                                Was("description"),
                                                pdata[p].created_at, now)]
       /\ \A t \in TReqs :
             (tcall[t].kind = "key_update" /\ tpc'[t] # tpc[t])
             => LET h == tcall[t].translation_key
                    F == tcall[t].update_fields
                    k == h.pk
                IN  /\ (tpc[t] = "ku_clean" /\ F = {})
                       => /\ tpc'[t] = "done"
                          /\ tret'[t].result = "ok"
                          /\ keys' = keys
                    /\ (tpc[t] = "ku_clean" /\ F # {}) => keys' = keys
                    /\ (tpc[t] = "ku_save" /\ tret'[t].result # "ok")
                       => keys' = keys
                    /\ (tpc[t] = "ku_save" /\ tret'[t].result = "ok")
                       => /\ F # {}
                          /\ keys' =
                                 [keys EXCEPT ![k] =
                                     KeyRow(keys[k].project,
                                            IF "key" \in F
                                            THEN lower(tcall[t].key)
                                            ELSE keys[k].key,
                                            IF "description" \in F
                                            THEN tcall[t].description
                                            ELSE keys[k].description,
                                            now)]]_vars

\* later than the project was created, a project_update with no field has
\* returned and the row has its old modification time; and a
\* translation_key_update with only a description has changed the
\* description and the modification time of a key and kept its text
C30_Witness ==
    /\ pc["r1"] = "done"
    /\ call["r1"].kind = "project_update"
    /\ call["r1"].update_fields = {}
    /\ ret["r1"].result = "ok"
    /\ call["r1"].project \in projects
    /\ pdata[call["r1"].project].updated_at < now
    /\ tpc["t1"] = "done"
    /\ tcall["t1"].kind = "key_update"
    /\ tcall["t1"].update_fields = {"description"}
    /\ tret["t1"].result = "ok"
    /\ LET k == tcall["t1"].translation_key.pk
       IN  /\ k \in DOMAIN keys
           /\ keys[k].description = "d1"
           /\ keys[k].key = <<"a", ".", "b">>
           /\ keys[k].updated_at = now

\* C31: when project_language_set_base ends on an instance of a project that
\* exists whose row is no longer in the table (another call has deleted it
\* since the caller read the instance), the call has raised, the table is as
\* it was, and a project that had exactly one base row still has exactly one.
C31_GoneRowSetBaseFails ==
    [][\A r \in Reqs :
          (/\ call[r].kind = "set_base"
           /\ pc[r] \in {"sb_demote", "sb_promote"}
           /\ pc'[r] = "done"
           /\ call[r].project_language.project \in projects
           /\ call[r].project_language.pk \notin DOMAIN db)
          => /\ ret'[r].result # "ok"
             /\ db' = db
             /\ \A p \in ProjectIds :
                    Cardinality(BaseRows(db, p)) = 1
                        => Cardinality(BaseRows(db', p)) = 1]_vars

\* C32: project_language_bulk_add with an empty languages_data returns an
\* empty list without an error and leaves the table as it was, on a project
\* with rows and on a project without rows.
C32_BulkEmptyNoop ==
    [][\A r \in Reqs :
          (/\ call[r].kind = "bulk_add"
           /\ call[r].languages_data = <<>>
           /\ pc[r] = "bulk_exists"
           /\ pc'[r] = "done")
          => /\ ret'[r] = [result |-> "ok", rows |-> <<>>]
             /\ db' = db]_vars

====
